---- MODULE Spec2Model ----
(***************************************************************************)
(* Layout, edge routing and layout persistence of the SDL diagram tools:   *)
(* the static renderer (renderer/render.js, src/unnamed/part_003) and the  *)
(* interactive authoring tool (sdl-authoring.jsx, src/unnamed/part_002).   *)
(*                                                                         *)
(* JavaScript values are modelled as follows.                              *)
(*   - A node is a record [id, kind]; an edge a record [id, source,        *)
(*     target].  Lists are sequences.                                      *)
(*   - An object used as a map (positions, adj, fp, saved layout) is a     *)
(*     function whose DOMAIN is the set of its own keys.  A lookup of a    *)
(*     key the object does not own falls back to Object.prototype, which   *)
(*     is why "constructor" is truthy in every such object.                *)
(*   - A barycenter sum/len and a port y-value are exact rationals         *)
(*     [num, den]; the IEEE doubles of the code order these small          *)
(*     rationals exactly as the rationals are ordered.                     *)
(*   - A node identifier is never a name of Object.prototype; an edge      *)
(*     endpoint may be any identifier, "constructor" included.             *)
(***************************************************************************)
EXTENDS Integers, Sequences, FiniteSets, TLC

\* ------------------------------------------------------------------------
\* JavaScript built-ins used by the code
\* ------------------------------------------------------------------------

\* Property names every object literal {} inherits from Object.prototype
\* (restricted to the one lowercase, kebab-case-valid name).
ObjectPrototypeKeys == {"constructor"}

\* obj[key] is truthy: an own entry (every own value of the maps below is an
\* object or a Set), or an inherited function.
Truthy(obj, key) == key \in DOMAIN obj \/ key \in ObjectPrototypeKeys

\* Exact rational arithmetic for a.bc - b.bc and for port comparisons.
RatLess(a, b) == a.num * b.den < b.num * a.den
RatEq(a, b) == a.num * b.den = b.num * a.den

RECURSIVE SumOver(_, _)
\* neighbors.reduce((sum, id) => sum + f[id], 0)
SumOver(f, S) ==
    IF S = {} THEN 0
    ELSE LET x == CHOOSE y \in S : TRUE IN f[x] + SumOver(f, S \ {x})

\* Array.prototype.sort with comparator (a, b) => a.bc - b.bc is stable
\* (ECMAScript 2019): an item goes before the first item of larger bc.
InsertByBc(sorted, item) ==
    LET later == {i \in 1..Len(sorted) : RatLess(item.bc, sorted[i].bc)}
        k == IF later = {} THEN Len(sorted) + 1
             ELSE CHOOSE i \in later : \A j \in later : i <= j
    IN SubSeq(sorted, 1, k - 1) \o <<item>> \o SubSeq(sorted, k, Len(sorted))

RECURSIVE SortByBc(_)
SortByBc(items) ==
    IF items = <<>> THEN <<>>
    ELSE InsertByBc(SortByBc(SubSeq(items, 1, Len(items) - 1)), items[Len(items)])

\* layer.forEach((n, idx) => { fp[n.id] = idx; }): 0-based index of each id.
IndexMap(layer) ==
    [id \in {layer[i].id : i \in 1..Len(layer)} |->
        (CHOOSE i \in 1..Len(layer) :
            layer[i].id = id /\ \A j \in 1..Len(layer) : layer[j].id = id => j <= i) - 1]

RECURSIVE FilterSeq(_, _)
\* Array.prototype.filter, keeping the items whose index is in keep.
FilterSeq(s, keep) ==
    IF s = <<>> THEN <<>>
    ELSE LET rest == FilterSeq(SubSeq(s, 1, Len(s) - 1), keep)
         IN IF Len(s) \in keep THEN Append(rest, s[Len(s)]) ELSE rest

\* ------------------------------------------------------------------------
\* Layer assignment and node dimensions
\* ------------------------------------------------------------------------

LAYER_ORDER ==
    << {"actor", "frontend", "mobile-app", "cli"},
       {"cdn", "load-balancer", "gateway"},
       {"identity-provider", "microservice", "monolith", "serverless-function",
        "scheduler", "data-pipeline", "ml-model"},
       {"message-broker", "message-queue"},
       {"database", "cache", "object-storage"},
       {"external-api"} >>

\* The layer returned for a kind no row lists.
DefaultLayer == 2

\* A kind no row lists put into the last row.
assignLayerLast(kind) ==
    LET rows == {i \in 1..Len(LAYER_ORDER) : kind \in LAYER_ORDER[i]}
    IN IF rows # {} THEN (CHOOSE i \in rows : \A j \in rows : i <= j) - 1
       ELSE Len(LAYER_ORDER) - 1

\* for (i ...) if (LAYER_ORDER[i].includes(kind)) return i; return 2
assignLayer(kind) ==
    LET rows == {i \in 1..Len(LAYER_ORDER) : kind \in LAYER_ORDER[i]}
    IN IF rows # {} THEN (CHOOSE i \in rows : \A j \in rows : i <= j) - 1
       ELSE DefaultLayer

\* What an object literal yields for a key of Object.prototype, as the
\* property name it becomes when used as a key in turn.
InheritedMember == "function Object() { [native code] }"

\* shapeMap[kind] || "rectangle"
getShapeForKind(kind) ==
    CASE kind \in {"database", "cache"} -> "cylinder"
      [] kind \in {"gateway", "load-balancer"} -> "diamond"
      [] kind = "actor" -> "person"
      [] kind \in ObjectPrototypeKeys -> InheritedMember
      [] OTHER -> "rectangle"

\* Authoring tool: NODE_W, NODE_H, SHAPES, LAYER_X_GAP, NODE_Y_GAP, MARGIN.
NODE_W == 150
NODE_H == 62
SHAPES ==
    [diamond |-> [w |-> 76, h |-> 76],
     cylinder |-> [w |-> 136, h |-> 68],
     person |-> [w |-> 58, h |-> 76]]
LAYER_X_GAP == 210
NODE_Y_GAP == 90
MARGIN == 52

\* Every kind drawn as the default rectangle.
nodeDimsRect(kind) == [w |-> NODE_W, h |-> NODE_H]

\* SHAPES[{database:"cylinder",...}[kind] || "rect"] || {}, then
\* { w: s.w || NODE_W, h: s.h || NODE_H }
nodeDims(kind) ==
    LET shape == CASE kind \in {"database", "cache"} -> "cylinder"
                   [] kind \in {"gateway", "load-balancer"} -> "diamond"
                   [] kind = "actor" -> "person"
                   [] kind \in ObjectPrototypeKeys -> InheritedMember
                   [] OTHER -> "rect"
    IN IF shape \in DOMAIN SHAPES
       THEN [w |-> SHAPES[shape].w, h |-> SHAPES[shape].h]
       ELSE [w |-> NODE_W, h |-> NODE_H]

\* Renderer: override.width || theme.nodes.width, override.height || theme.nodes.height
getNodeDims(kind, th) ==
    LET shape == getShapeForKind(kind)
    IN IF shape \in DOMAIN th.nodes.shapes
       THEN [w |-> th.nodes.shapes[shape].width,
             h |-> th.nodes.shapes[shape].height]
       ELSE [w |-> th.nodes.width, h |-> th.nodes.height]

\* ------------------------------------------------------------------------
\* Helpers shared by both layout engines
\* ------------------------------------------------------------------------

\* The value of a call that threw (adj[id].add is not a function).
TypeError == "TypeError"

\* let bestCrossings = Infinity
Infinity == [inf |-> TRUE, val |-> 0]
Finite(v) == [inf |-> FALSE, val |-> v]
\* total < bestCrossings
LessThanBest(total, best) == best.inf \/ total < best.val

NodeIds(ns) == {ns[i].id : i \in 1..Len(ns)}

RECURSIVE SortedSeq(_)
\* Object.keys(layerMap).map(Number).sort((a, b) => a - b)
SortedSeq(S) ==
    IF S = {} THEN <<>>
    ELSE LET m == CHOOSE x \in S : \A y \in S : x <= y
         IN <<m>> \o SortedSeq(S \ {m})

\* The rounds of the sweep loop: for (let round = 0; round < 4; round++)
ROUNDS == 4

\* ------------------------------------------------------------------------
\* Authoring tool layout engine (sdl-authoring.jsx)
\* ------------------------------------------------------------------------

\* a[e.source] is truthy but owns no add(): the endpoint is no node and names
\* an inherited property.
buildAdjThrows(ns, es) ==
    \E i \in 1..Len(es) :
        \/ es[i].source \notin NodeIds(ns) /\ es[i].source \in ObjectPrototypeKeys
        \/ es[i].target \notin NodeIds(ns) /\ es[i].target \in ObjectPrototypeKeys

buildAdj(ns, es) ==
    [id \in NodeIds(ns) |->
        {es[i].target : i \in {j \in 1..Len(es) : es[j].source = id}}
        \cup {es[i].source : i \in {j \in 1..Len(es) : es[j].target = id}}]

bcSort(layer, adj, fp) ==
    LET keyed == [i \in 1..Len(layer) |->
            LET n == layer[i]
                nb == {id \in adj[n.id] : id \in DOMAIN fp}
            IN [n |-> n,
                bc |-> IF nb # {}
                       THEN [num |-> SumOver(fp, nb), den |-> Cardinality(nb)]
                       ELSE [num |-> IF n.id \in DOMAIN fp THEN fp[n.id] ELSE 999,
                             den |-> 1]]]
        sorted == SortByBc(keyed)
    IN [i \in 1..Len(layer) |-> sorted[i].n]

\* const li = Object.keys(lm).map(Number).sort((a,b)=>a-b)
li(ns) == SortedSeq({assignLayer(ns[i].kind) : i \in 1..Len(ns)})

\* lm[l]: the nodes of layer l in node-list order
lm(ns, l) == FilterSeq(ns, {i \in 1..Len(ns) : assignLayer(ns[i].kind) = l})

layoutLayers(ns) == [k \in 1..Len(li(ns)) |-> lm(ns, li(ns)[k])]

RECURSIVE layoutForward(_, _, _)
\* for (let i=1;i<layers.length;i++) layers[i]=bcSort(layers[i],adj,fp(layers[i-1]))
layoutForward(lys, adj, k) ==
    IF k > Len(lys) THEN lys
    ELSE layoutForward([lys EXCEPT ![k] = bcSort(lys[k], adj, IndexMap(lys[k - 1]))],
                       adj, k + 1)

RECURSIVE layoutBackward(_, _, _)
\* for (let i=layers.length-2;i>=0;i--) layers[i]=bcSort(layers[i],adj,fp(layers[i+1]))
layoutBackward(lys, adj, k) ==
    IF k < 1 THEN lys
    ELSE layoutBackward([lys EXCEPT ![k] = bcSort(lys[k], adj, IndexMap(lys[k + 1]))],
                        adj, k - 1)

\* The inline crossing count of layout() for the pair layers[i], layers[i+1].
layoutPairCrossings(A, B, es) ==
    LET pA == IndexMap(A)
        pB == IndexMap(B)
        rel == FilterSeq(es, {i \in 1..Len(es) :
                   \/ es[i].source \in DOMAIN pA /\ es[i].target \in DOMAIN pB
                   \/ es[i].source \in DOMAIN pB /\ es[i].target \in DOMAIN pA})
        a(e) == IF e.source \in DOMAIN pA THEN pA[e.source] ELSE pA[e.target]
        b(e) == IF e.target \in DOMAIN pB THEN pB[e.target] ELSE pB[e.source]
        defd(e) == /\ (e.source \in DOMAIN pA \/ e.target \in DOMAIN pA)
                   /\ (e.target \in DOMAIN pB \/ e.source \in DOMAIN pB)
    IN Cardinality({p \in (1..Len(rel)) \X (1..Len(rel)) :
           /\ p[1] < p[2]
           /\ defd(rel[p[1]]) /\ defd(rel[p[2]])
           /\ (a(rel[p[1]]) - a(rel[p[2]])) * (b(rel[p[1]]) - b(rel[p[2]])) < 0})

RECURSIVE layoutTotal(_, _, _)
\* let x=0; for(let i=0;i<layers.length-1;i++) x += crossings(layers[i], layers[i+1])
layoutTotal(lys, es, k) ==
    IF k >= Len(lys) THEN 0
    ELSE layoutPairCrossings(lys[k], lys[k + 1], es) + layoutTotal(lys, es, k + 1)

\* One iteration of for (let r=0;r<4;r++): forward, backward, count, keep best.
layoutRound(st, adj, es) ==
    LET swept == layoutBackward(layoutForward(st.layers, adj, 2), adj, Len(st.layers) - 1)
        x == layoutTotal(swept, es, 1)
    IN IF LessThanBest(x, st.bestX)
       THEN [layers |-> swept, best |-> swept, bestX |-> Finite(x)]
       ELSE [layers |-> swept, best |-> st.best, bestX |-> st.bestX]

RECURSIVE layoutRounds(_, _, _, _)
layoutRounds(st, adj, es, r) ==
    IF r >= ROUNDS THEN st
    ELSE layoutRounds(layoutRound(st, adj, es), adj, es, r + 1)

\* The layer orders layout() keeps: best after the 4 rounds.
layoutBest(ns, es) ==
    layoutRounds([layers |-> layoutLayers(ns), best |-> layoutLayers(ns),
                  bestX |-> Infinity],
                 buildAdj(ns, es), es, 0).best

\* pos[n.id]={x,y:MARGIN+i*(h+NODE_Y_GAP),layer:layerIdx}
layoutPositions(best, lix) ==
    [id \in UNION {{best[k][i].id : i \in 1..Len(best[k])} : k \in 1..Len(best)} |->
        LET has(kk) == \E i \in 1..Len(best[kk]) : best[kk][i].id = id
            k == CHOOSE kk \in 1..Len(best) :
                    has(kk) /\ \A jj \in 1..Len(best) : has(jj) => jj <= kk
            i == CHOOSE ii \in 1..Len(best[k]) :
                    /\ best[k][ii].id = id
                    /\ \A jj \in 1..Len(best[k]) : best[k][jj].id = id => jj <= ii
        IN [x |-> MARGIN + lix[k] * LAYER_X_GAP,
            y |-> MARGIN + (i - 1) * (nodeDims(best[k][i].kind).h + NODE_Y_GAP),
            layer |-> lix[k]]]

layout(ns, es) ==
    IF buildAdjThrows(ns, es) THEN TypeError
    ELSE layoutPositions(layoutBest(ns, es), li(ns))

\* ------------------------------------------------------------------------
\* Renderer layout engine (renderer/render.js)
\* ------------------------------------------------------------------------

\* const adj = {}; ... if (adj[e.source]) adj[e.source].add(e.target): an
\* endpoint that is no node but names an inherited property is truthy and
\* owns no add().
buildAdjacencyThrows(ns, es) ==
    \E i \in 1..Len(es) :
        \/ es[i].source \notin NodeIds(ns) /\ Truthy(<<>>, es[i].source)
        \/ es[i].target \notin NodeIds(ns) /\ Truthy(<<>>, es[i].target)

\* The adjacency with the target recorded at the source only.
buildAdjacencyDirected(ns, es) ==
    [id \in NodeIds(ns) |-> {es[i].target : i \in {j \in 1..Len(es) : es[j].source = id}}]

buildAdjacency(ns, es) ==
    [id \in NodeIds(ns) |->
        {es[i].target : i \in {j \in 1..Len(es) : es[j].source = id}}
        \cup {es[i].source : i \in {j \in 1..Len(es) : es[j].target = id}}]

\* countCrossings that takes only the edges from layerA to layerB.
countCrossingsForward(layerA, layerB, es) ==
    LET posA == IndexMap(layerA)
        posB == IndexMap(layerB)
        rel == FilterSeq(es, {i \in 1..Len(es) :
                   es[i].source \in DOMAIN posA /\ es[i].target \in DOMAIN posB})
    IN Cardinality({p \in (1..Len(rel)) \X (1..Len(rel)) :
           /\ p[1] < p[2]
           /\ (posA[rel[p[1]].source] - posA[rel[p[2]].source])
                 * (posB[rel[p[1]].target] - posB[rel[p[2]].target]) < 0})

countCrossings(layerA, layerB, es) ==
    LET posA == IndexMap(layerA)
        posB == IndexMap(layerB)
        rel == FilterSeq(es, {i \in 1..Len(es) :
                   \/ es[i].source \in DOMAIN posA /\ es[i].target \in DOMAIN posB
                   \/ es[i].source \in DOMAIN posB /\ es[i].target \in DOMAIN posA})
        \* posA[e.source] ?? posA[e.target] and posB[e.target] ?? posB[e.source]
        a(e) == IF e.source \in DOMAIN posA THEN posA[e.source] ELSE posA[e.target]
        b(e) == IF e.target \in DOMAIN posB THEN posB[e.target] ELSE posB[e.source]
        defd(e) == /\ (e.source \in DOMAIN posA \/ e.target \in DOMAIN posA)
                   /\ (e.target \in DOMAIN posB \/ e.source \in DOMAIN posB)
    IN Cardinality({p \in (1..Len(rel)) \X (1..Len(rel)) :
           /\ p[1] < p[2]
           /\ defd(rel[p[1]]) /\ defd(rel[p[2]])
           /\ (a(rel[p[1]]) - a(rel[p[2]])) * (b(rel[p[1]]) - b(rel[p[2]])) < 0})

\* barycenterSort that keeps only the nodes with a neighbour in the fixed layer.
barycenterSortNeighboured(layer, adj, fixedPositions) ==
    FilterSeq(layer, {i \in 1..Len(layer) :
                        \E id \in adj[layer[i].id] : id \in DOMAIN fixedPositions})

\* barycenterSort without the filter: every neighbouring node counts, one
\* outside the fixed layer with index 0.
barycenterSortAnyLayer(layer, adj, fixedPositions) ==
    LET keyed == [i \in 1..Len(layer) |->
            LET node == layer[i]
                neighbors == {id \in adj[node.id] : id \in DOMAIN adj}
                inFixed == {id \in neighbors : id \in DOMAIN fixedPositions}
            IN [node |-> node,
                bc |-> IF neighbors = {}
                       THEN [num |-> 999, den |-> 1]
                       ELSE [num |-> SumOver(fixedPositions, inFixed),
                             den |-> Cardinality(neighbors)]]]
        sorted == SortByBc(keyed)
    IN [i \in 1..Len(layer) |-> sorted[i].node]

barycenterSort(layer, adj, fixedPositions) ==
    LET keyed == [i \in 1..Len(layer) |->
            LET node == layer[i]
                neighbors == {id \in adj[node.id] : id \in DOMAIN fixedPositions}
            IN [node |-> node,
                bc |-> IF neighbors = {}
                       THEN [num |-> IF node.id \in DOMAIN fixedPositions
                                     THEN fixedPositions[node.id] ELSE 999,
                             den |-> 1]
                       ELSE [num |-> SumOver(fixedPositions, neighbors),
                             den |-> Cardinality(neighbors)]]]
        sorted == SortByBc(keyed)
    IN [i \in 1..Len(layer) |-> sorted[i].node]

\* Object.keys(layerMap).map(Number).sort((a, b) => a - b)
layerIndices(ns) == SortedSeq({assignLayer(ns[i].kind) : i \in 1..Len(ns)})

\* layerMap[l]: the nodes pushed to layer l, in node-list order
layerMap(ns, l) == FilterSeq(ns, {i \in 1..Len(ns) : assignLayer(ns[i].kind) = l})

\* let layers = layerIndices.map(i => layerMap[i])
initialLayers(ns) ==
    [k \in 1..Len(layerIndices(ns)) |-> layerMap(ns, layerIndices(ns)[k])]

RECURSIVE forwardPass(_, _, _)
\* for (let i = 1; i < layers.length; i++) layers[i] = barycenterSort(layers[i], adj, fp)
forwardPass(lys, adj, k) ==
    IF k > Len(lys) THEN lys
    ELSE forwardPass([lys EXCEPT ![k] = barycenterSort(lys[k], adj, IndexMap(lys[k - 1]))],
                     adj, k + 1)

RECURSIVE backwardPass(_, _, _)
\* for (let i = layers.length - 2; i >= 0; i--) layers[i] = barycenterSort(layers[i], adj, fp)
backwardPass(lys, adj, k) ==
    IF k < 1 THEN lys
    ELSE backwardPass([lys EXCEPT ![k] = barycenterSort(lys[k], adj, IndexMap(lys[k + 1]))],
                      adj, k - 1)

RECURSIVE totalCrossings(_, _, _)
\* for (let i = 0; i < layers.length - 1; i++) total += countCrossings(layers[i], layers[i + 1], edges)
totalCrossings(lys, es, k) ==
    IF k >= Len(lys) THEN 0
    ELSE countCrossings(lys[k], lys[k + 1], es) + totalCrossings(lys, es, k + 1)

\* The layers after the forward and the backward pass of one round.
sweep(lys, adj) == backwardPass(forwardPass(lys, adj, 2), adj, Len(lys) - 1)

\* keepBest with total <= bestCrossings: a later round of equal total replaces
\* the kept order.
keepBestOrEqual(total, lys, best, bestX) ==
    IF bestX.inf \/ total <= bestX.val
    THEN [bestLayers |-> lys, bestCrossings |-> Finite(total)]
    ELSE [bestLayers |-> best, bestCrossings |-> bestX]

\* if (total < bestCrossings) { bestCrossings = total; bestLayers = layers.map(l => [...l]); }
keepBest(total, lys, best, bestX) ==
    IF LessThanBest(total, bestX)
    THEN [bestLayers |-> lys, bestCrossings |-> Finite(total)]
    ELSE [bestLayers |-> best, bestCrossings |-> bestX]

\* assignPositions with layer: li, the rank among the non-empty layers, in
\* place of layerIdx.
assignPositionsByRank(lys, lix, th) ==
    [id \in UNION {{lys[k][i].id : i \in 1..Len(lys[k])} : k \in 1..Len(lys)} |->
        LET k == CHOOSE kk \in 1..Len(lys) : \E i \in 1..Len(lys[kk]) : lys[kk][i].id = id
            i == CHOOSE ii \in 1..Len(lys[k]) : lys[k][ii].id = id
        IN [x |-> th.layout.margin + (k - 1) * th.layout.layer_spacing_x,
            y |-> th.layout.margin
                  + (i - 1) * (getNodeDims(lys[k][i].kind, th).h + th.layout.node_spacing_y),
            layer |-> k - 1,
            indexInLayer |-> i - 1,
            layerSize |-> Len(lys[k])]]

\* positions[node.id] = { x, y, layer: layerIdx, indexInLayer: i, layerSize }
assignPositions(lys, lix, th) ==
    [id \in UNION {{lys[k][i].id : i \in 1..Len(lys[k])} : k \in 1..Len(lys)} |->
        LET has(kk) == \E i \in 1..Len(lys[kk]) : lys[kk][i].id = id
            k == CHOOSE kk \in 1..Len(lys) :
                    has(kk) /\ \A jj \in 1..Len(lys) : has(jj) => jj <= kk
            i == CHOOSE ii \in 1..Len(lys[k]) :
                    /\ lys[k][ii].id = id
                    /\ \A jj \in 1..Len(lys[k]) : lys[k][jj].id = id => jj <= ii
        IN [x |-> th.layout.margin + lix[k] * th.layout.layer_spacing_x,
            y |-> th.layout.margin
                  + (i - 1) * (getNodeDims(lys[k][i].kind, th).h + th.layout.node_spacing_y),
            layer |-> lix[k],
            indexInLayer |-> i - 1,
            layerSize |-> Len(lys[k])]]

RECURSIVE sweepRounds(_, _, _, _)
\* The locals layers, bestLayers, bestCrossings after rounds r .. 3.
sweepRounds(st, adj, es, r) ==
    IF r >= ROUNDS THEN st
    ELSE LET swept == sweep(st.layers, adj)
             kept == keepBest(totalCrossings(swept, es, 1), swept,
                              st.bestLayers, st.bestCrossings)
         IN sweepRounds([layers |-> swept, bestLayers |-> kept.bestLayers,
                         bestCrossings |-> kept.bestCrossings], adj, es, r + 1)

\* computeLayout as one call: the position map, or the throw of buildAdjacency.
computeLayout(ns, es, th) ==
    IF buildAdjacencyThrows(ns, es) THEN TypeError
    ELSE assignPositions(
             sweepRounds([layers |-> initialLayers(ns), bestLayers |-> initialLayers(ns),
                          bestCrossings |-> Infinity],
                         buildAdjacency(ns, es), es, 0).bestLayers,
             layerIndices(ns), th)

\* ------------------------------------------------------------------------
\* Edge routing: ports and paths
\* ------------------------------------------------------------------------

\* nodes.find(n => n.id === id).kind, for an id that some node carries
KindOf(ns, id) ==
    ns[CHOOSE i \in 1..Len(ns) :
              ns[i].id = id /\ \A j \in 1..Len(ns) : ns[j].id = id => i <= j].kind

\* m[k] = (m[k] || []).concat(v)
Push(m, k, v) ==
    IF k \in DOMAIN m THEN [m EXCEPT ![k] = Append(@, v)] ELSE m @@ (k :> <<v>>)

\* An edge that passes both guards: if(!sp||!tp) continue; if(!sn||!tn) continue;
Routed(e, pos, ns) ==
    /\ Truthy(pos, e.source) /\ Truthy(pos, e.target)
    /\ e.source \in NodeIds(ns) /\ e.target \in NodeIds(ns)

\* c===1 ? p.y+h/2 : p.y+pad+(i/(c-1))*(h-pad*2), pad = h*0.2, i 0-based
PortValue(y, h, c, i) ==
    IF c = 1 THEN [num |-> 2 * y + h, den |-> 2]
    ELSE [num |-> 5 * (c - 1) * y + (c - 1) * h + 3 * i * h, den |-> 5 * (c - 1)]

\* The cells py[eid][nid] one side map writes; a later index overwrites an
\* earlier one with the same edge id.
SideCells(sm) ==
    UNION {{<<sm[nid][i], nid>> : i \in 1..Len(sm[nid])} : nid \in DOMAIN sm}

LastIndexOf(eids, eid) ==
    CHOOSE i \in 1..Len(eids) : eids[i] = eid /\ \A j \in 1..Len(eids) : eids[j] = eid => j <= i

\* toR = (sp.x + sw/2) <= (tp.x + tw/2), authoring tool
liveToR(e, pos, ns) ==
    2 * pos[e.source].x + nodeDims(KindOf(ns, e.source)).w
        <= 2 * pos[e.target].x + nodeDims(KindOf(ns, e.target)).w

RECURSIVE liveSides(_, _, _, _)
\* The side maps re, le after the first k edges of buildPortsLive's loop.
liveSides(es, pos, ns, k) ==
    IF k = 0 THEN [re |-> <<>>, le |-> <<>>]
    ELSE LET prev == liveSides(es, pos, ns, k - 1)
             e == es[k]
         IN IF ~Routed(e, pos, ns) THEN prev
            ELSE IF liveToR(e, pos, ns)
                 THEN LET re1 == Push(prev.re, e.source, e.id)
                      IN [re |-> re1, le |-> Push(prev.le, e.target, e.id)]
                 ELSE LET le1 == Push(prev.le, e.source, e.id)
                      IN [re |-> Push(prev.re, e.target, e.id), le |-> le1]

\* assign(re); assign(le); return py;  py is a map from <<edge id, node id>>
buildPortsLive(es, pos, ns) ==
    LET sides == liveSides(es, pos, ns, Len(es))
        ok(nid) == nid \in DOMAIN pos /\ nid \in NodeIds(ns)
        cells(sm) == {c \in SideCells(sm) : ok(c[2])}
        val(sm, c) == PortValue(pos[c[2]].y, nodeDims(KindOf(ns, c[2])).h,
                                Len(sm[c[2]]), LastIndexOf(sm[c[2]], c[1]) - 1)
    IN [c \in cells(sides.re) \cup cells(sides.le) |->
           IF c \in cells(sides.le) THEN val(sides.le, c) ELSE val(sides.re, c)]

\* What edgePath returns as null and edgeSVG as "": nothing is drawn.
NoPath == [drawn |-> FALSE]

\* edgePath with the side chosen by layer index, as the legacy buildPorts
\* chooses it: toR = sp.layer <= tp.layer.
edgePathByLayer(e, pos, ns, py) ==
    IF ~Routed(e, pos, ns) THEN [drawn |-> FALSE]
    ELSE LET sp == pos[e.source]
             tp == pos[e.target]
             sd == nodeDims(KindOf(ns, e.source))
             td == nodeDims(KindOf(ns, e.target))
             toR == IF "layer" \in DOMAIN sp /\ "layer" \in DOMAIN tp
                    THEN sp.layer <= tp.layer ELSE TRUE
             sx == IF toR THEN sp.x + sd.w ELSE sp.x
             tx == IF toR THEN tp.x ELSE tp.x + td.w
             gap == IF tx >= sx THEN tx - sx ELSE sx - tx
         IN [drawn |-> TRUE, toR |-> toR, sx |-> sx, tx |-> tx,
             srcY |-> IF <<e.id, e.source>> \in DOMAIN py THEN py[<<e.id, e.source>>]
                      ELSE [num |-> 2 * sp.y + sd.h, den |-> 2],
             tgtY |-> IF <<e.id, e.target>> \in DOMAIN py THEN py[<<e.id, e.target>>]
                      ELSE [num |-> 2 * tp.y + td.h, den |-> 2],
             dx20 |-> IF 9 * gap >= 800 THEN 9 * gap ELSE 800]

\* edgePath: null for an edge that is not routed, else where the curve starts
\* and ends.  dx = Math.max(Math.abs(tx-sx)*0.45, 40) is kept times 20.
edgePath(e, pos, ns, py) ==
    IF ~Routed(e, pos, ns) THEN NoPath
    ELSE LET sp == pos[e.source]
             tp == pos[e.target]
             sd == nodeDims(KindOf(ns, e.source))
             td == nodeDims(KindOf(ns, e.target))
             toR == 2 * sp.x + sd.w <= 2 * tp.x + td.w
             sx == IF toR THEN sp.x + sd.w ELSE sp.x
             tx == IF toR THEN tp.x ELSE tp.x + td.w
             gap == IF tx >= sx THEN tx - sx ELSE sx - tx
         IN [drawn |-> TRUE, toR |-> toR, sx |-> sx, tx |-> tx,
             srcY |-> IF <<e.id, e.source>> \in DOMAIN py THEN py[<<e.id, e.source>>]
                      ELSE [num |-> 2 * sp.y + sd.h, den |-> 2],
             tgtY |-> IF <<e.id, e.target>> \in DOMAIN py THEN py[<<e.id, e.target>>]
                      ELSE [num |-> 2 * tp.y + td.h, den |-> 2],
             dx20 |-> IF 9 * gap >= 800 THEN 9 * gap ELSE 800]

\* toRight = (sp.x + sw / 2) <= (tp.x + tw / 2), renderer
indexToRight(e, pos, ns, th) ==
    2 * pos[e.source].x + getNodeDims(KindOf(ns, e.source), th).w
        <= 2 * pos[e.target].x + getNodeDims(KindOf(ns, e.target), th).w

RECURSIVE indexSides(_, _, _, _, _)
\* rightEdges, leftEdges after the first k edges of buildPortIndex's loop.
indexSides(es, pos, ns, th, k) ==
    IF k = 0 THEN [rightEdges |-> <<>>, leftEdges |-> <<>>]
    ELSE LET prev == indexSides(es, pos, ns, th, k - 1)
             e == es[k]
         IN IF ~Routed(e, pos, ns) THEN prev
            ELSE IF indexToRight(e, pos, ns, th)
                 THEN LET r1 == Push(prev.rightEdges, e.source, e.id)
                      IN [rightEdges |-> r1, leftEdges |-> Push(prev.leftEdges, e.target, e.id)]
                 ELSE LET l1 == Push(prev.leftEdges, e.source, e.id)
                      IN [rightEdges |-> Push(prev.rightEdges, e.target, e.id), leftEdges |-> l1]

\* assignPorts(rightEdges); assignPorts(leftEdges); return portY;
buildPortIndex(es, pos, ns, th) ==
    LET sides == indexSides(es, pos, ns, th, Len(es))
        ok(nid) == nid \in DOMAIN pos /\ nid \in NodeIds(ns)
        cells(sm) == {c \in SideCells(sm) : ok(c[2])}
        val(sm, c) == PortValue(pos[c[2]].y, getNodeDims(KindOf(ns, c[2]), th).h,
                                Len(sm[c[2]]), LastIndexOf(sm[c[2]], c[1]) - 1)
    IN [c \in cells(sides.rightEdges) \cup cells(sides.leftEdges) |->
           IF c \in cells(sides.leftEdges) THEN val(sides.leftEdges, c)
           ELSE val(sides.rightEdges, c)]

\* edgeSVG: "" for an edge that is not routed, else the endpoints of the path.
edgeSVG(edge, pos, ns, th, py) ==
    IF ~Routed(edge, pos, ns) THEN NoPath
    ELSE LET srcPos == pos[edge.source]
             tgtPos == pos[edge.target]
             srcDims == getNodeDims(KindOf(ns, edge.source), th)
             tgtDims == getNodeDims(KindOf(ns, edge.target), th)
             toRight == 2 * srcPos.x + srcDims.w <= 2 * tgtPos.x + tgtDims.w
             sx == IF toRight THEN srcPos.x + srcDims.w ELSE srcPos.x
             tx == IF toRight THEN tgtPos.x ELSE tgtPos.x + tgtDims.w
             gap == IF tx >= sx THEN tx - sx ELSE sx - tx
         IN [drawn |-> TRUE, toR |-> toRight, sx |-> sx, tx |-> tx,
             srcY |-> IF <<edge.id, edge.source>> \in DOMAIN py
                      THEN py[<<edge.id, edge.source>>]
                      ELSE [num |-> 2 * srcPos.y + srcDims.h, den |-> 2],
             tgtY |-> IF <<edge.id, edge.target>> \in DOMAIN py
                      THEN py[<<edge.id, edge.target>>]
                      ELSE [num |-> 2 * tgtPos.y + tgtDims.h, den |-> 2],
             dx20 |-> IF 9 * gap >= 800 THEN 9 * gap ELSE 800]

\* ------------------------------------------------------------------------
\* Layout persistence: key, stored record, merge
\* ------------------------------------------------------------------------

\* The UTF-16 code units of the identifiers the model uses.
CodeUnits(id) ==
    CASE id = "a" -> <<97>>
      [] id = "b" -> <<98>>
      [] id = "c" -> <<99>>
      [] id = "d" -> <<100>>
      [] id = "e" -> <<101>>
      [] id = "f" -> <<102>>
      [] id = "g" -> <<103>>
      [] id = "h" -> <<104>>
      [] id = "ab" -> <<97, 98>>
      [] id = "a-b" -> <<97, 45, 98>>
      [] id = "zz" -> <<122, 122>>
      [] id = "ghost" -> <<103, 104, 111, 115, 116>>
      [] id = "constructor" -> <<99, 111, 110, 115, 116, 114, 117, 99, 116, 111, 114>>

\* "layout:" and the separator "|"
LayoutPrefix == <<108, 97, 121, 111, 117, 116, 58>>
Separator == <<124>>

RECURSIVE StrLess(_, _)
\* The default comparison of Array.prototype.sort(): by code units.
StrLess(u, v) ==
    IF v = <<>> THEN FALSE
    ELSE IF u = <<>> THEN TRUE
    ELSE IF u[1] # v[1] THEN u[1] < v[1]
    ELSE StrLess(Tail(u), Tail(v))

InsertStr(sorted, str) ==
    LET later == {i \in 1..Len(sorted) : StrLess(str, sorted[i])}
        k == IF later = {} THEN Len(sorted) + 1
             ELSE CHOOSE i \in later : \A j \in later : i <= j
    IN SubSeq(sorted, 1, k - 1) \o <<str>> \o SubSeq(sorted, k, Len(sorted))

\* The sort left out: the strings in the order given.
SortStringsKept(strs) == strs

RECURSIVE SortStrings(_)
SortStrings(strs) ==
    IF strs = <<>> THEN <<>>
    ELSE InsertStr(SortStrings(SubSeq(strs, 1, Len(strs) - 1)), strs[Len(strs)])

RECURSIVE Join(_, _)
\* Array.prototype.join(sep)
Join(strs, sep) ==
    IF strs = <<>> THEN <<>>
    ELSE IF Len(strs) = 1 THEN strs[1]
    ELSE strs[1] \o sep \o Join(Tail(strs), sep)

\* layoutKey built from the first node alone.
layoutKeyOfFirst(ns) ==
    LayoutPrefix \o (IF ns = <<>> THEN <<>> ELSE CodeUnits(ns[1].id))

\* "layout:" + [...nodes].map(n=>n.id).sort().join("|")
layoutKey(ns) ==
    LayoutPrefix \o Join(SortStrings([i \in 1..Len(ns) |-> CodeUnits(ns[i].id)]), Separator)

\* toSave[id] = { x: latest[id].x, y: latest[id].y } for every key of latest.
\* JSON.stringify and JSON.parse of finite numbers give back the same numbers.
toSave(latest) == [id \in DOMAIN latest |-> [x |-> latest[id].x, y |-> latest[id].y]]

\* A merge that takes the saved x and leaves the computed y.
mergeSavedX(base, saved) ==
    [id \in DOMAIN base |->
        IF id \in DOMAIN saved THEN [base[id] EXCEPT !.x = saved[id].x] ELSE base[id]]

\* The merge that moves a node by its saved entry instead of putting it there.
mergeSavedOffset(base, saved) ==
    [id \in DOMAIN base |->
        IF id \in DOMAIN saved
        THEN [base[id] EXCEPT !.x = @ + saved[id].x, !.y = @ + saved[id].y]
        ELSE base[id]]

\* merged[id] = saved[id] ? { ...base[id], x: saved[id].x, y: saved[id].y } : base[id]
\* for (const id of Object.keys(base))
mergeSaved(base, saved) ==
    [id \in DOMAIN base |->
        IF id \in DOMAIN saved
        THEN [base[id] EXCEPT !.x = saved[id].x, !.y = saved[id].y]
        ELSE base[id]]

\* The overlay looping over the saved entries instead of the nodes: an entry
\* of an identifier that is no node is added.
overlaySavedEntries(pos, ns, saved) ==
    [id \in DOMAIN pos \cup DOMAIN saved |->
        IF id \in DOMAIN saved
        THEN IF id \in DOMAIN pos
             THEN [pos[id] EXCEPT !.x = saved[id].x, !.y = saved[id].y]
             ELSE [x |-> saved[id].x, y |-> saved[id].y]
        ELSE pos[id]]

\* for (const node of nodes) if (saved[node.id]) positions[node.id] =
\*   { ...positions[node.id], x: saved[node.id].x, y: saved[node.id].y }
overlaySaved(pos, ns, saved) ==
    [id \in DOMAIN pos |->
        IF id \in NodeIds(ns) /\ id \in DOMAIN saved
        THEN [pos[id] EXCEPT !.x = saved[id].x, !.y = saved[id].y]
        ELSE pos[id]]

\* computeCanvasSize: maxX + margin * 2, maxY + margin * 2
computeCanvasSize(pos, ns, th) ==
    LET placed == {i \in 1..Len(ns) : ns[i].id \in DOMAIN pos}
        rights == {pos[ns[i].id].x + getNodeDims(ns[i].kind, th).w : i \in placed} \cup {0}
        bottoms == {pos[ns[i].id].y + getNodeDims(ns[i].kind, th).h : i \in placed} \cup {0}
    IN [width |-> (CHOOSE m \in rights : \A v \in rights : v <= m) + th.layout.margin * 2,
        height |-> (CHOOSE m \in bottoms : \A v \in bottoms : v <= m) + th.layout.margin * 2]

\* ------------------------------------------------------------------------
\* The MCP server: resolveDir (services/sdl-loader.ts)
\* ------------------------------------------------------------------------

\* A string is the sequence of its UTF-16 code units; undefined is no string.
Undefined == [defined |-> FALSE]
Str(units) == [defined |-> TRUE, units |-> units]

\* White space and line terminators String.prototype.trim removes (those
\* below U+2000, and the byte order mark).
WhiteSpace == {9, 10, 11, 12, 13, 32, 160, 5760, 65279}

RECURSIVE trimStart(_)
trimStart(u) ==
    IF u # <<>> /\ Head(u) \in WhiteSpace THEN trimStart(Tail(u)) ELSE u

RECURSIVE trimEnd(_)
trimEnd(u) ==
    IF u # <<>> /\ u[Len(u)] \in WhiteSpace THEN trimEnd(SubSeq(u, 1, Len(u) - 1)) ELSE u

\* s?.trim(): undefined stays undefined
trim(s) == IF s.defined THEN Str(trimEnd(trimStart(s.units))) ELSE Undefined

\* a || b on strings: undefined and "" are falsy
OrElse(a, b) == IF a.defined /\ a.units # <<>> THEN a ELSE b

Slash == <<47>>
Dot == <<46>>
DotDot == <<46, 46>>
\* process.cwd() of the server
Cwd == <<47, 119>>

\* The segments of a path: the runs of code units between slashes.
RECURSIVE Segments(_, _)
Segments(u, cur) ==
    IF u = <<>> THEN <<cur>>
    ELSE IF Head(u) = Slash[1] THEN <<cur>> \o Segments(Tail(u), <<>>)
    ELSE Segments(Tail(u), Append(cur, Head(u)))

\* normalizeString of path.resolve: "" and "." are dropped, ".." takes the
\* segment before it away.
RECURSIVE Normalized(_, _)
Normalized(segs, out) ==
    IF segs = <<>> THEN out
    ELSE IF Head(segs) = <<>> \/ Head(segs) = Dot THEN Normalized(Tail(segs), out)
    ELSE IF Head(segs) = DotDot
         THEN Normalized(Tail(segs), IF out = <<>> THEN out ELSE SubSeq(out, 1, Len(out) - 1))
    ELSE Normalized(Tail(segs), Append(out, Head(segs)))

RECURSIVE JoinSegments(_)
JoinSegments(segs) ==
    IF segs = <<>> THEN <<>> ELSE Slash \o Head(segs) \o JoinSegments(Tail(segs))

\* path.resolve(raw) on POSIX: a relative path is taken from the working
\* directory; the result is absolute and normalized, "/" for the root.
resolve(raw) ==
    LET abs == IF raw # <<>> /\ Head(raw) = Slash[1] THEN raw ELSE Cwd \o Slash \o raw
        segs == Normalized(Segments(abs, <<>>), <<>>)
    IN IF segs = <<>> THEN Slash ELSE JoinSegments(segs)

\* The error text, cut where it names the environment variable.
ErrorText ==
    <<"SDL directory not specified. Provide it in one of two ways: 1. Pass sdl_dir in the tool call: 2. Set the",
      "SDL_DIR",
      "environment variable in your MCP client config:">>

\* resolveDir with the environment variable read first.
resolveDirEnvFirst(sdlDirArg, env) ==
    LET raw == OrElse(trim(env), trim(sdlDirArg))
    IN IF ~(raw.defined /\ raw.units # <<>>)
       THEN [error |-> ErrorText]
       ELSE [dir |-> resolve(raw.units)]

\* const raw = sdlDirArg?.trim() || process.env.SDL_DIR?.trim();
\* if (!raw) return { error }; return { dir: resolve(raw) };
resolveDir(sdlDirArg, env) ==
    LET raw == OrElse(trim(sdlDirArg), trim(env))
    IN IF ~(raw.defined /\ raw.units # <<>>)
       THEN [error |-> ErrorText]
       ELSE [dir |-> resolve(raw.units)]

\* " /sdl ", "/sdl", "sdl/", "/other/../x", tab and space, ""
DirStrings ==
    {Str(<<32, 47, 115, 100, 108, 32>>), Str(<<47, 115, 100, 108>>),
     Str(<<115, 100, 108, 47>>), Str(<<47, 111, 47, 46, 46, 47, 120>>),
     Str(<<9, 32>>), Str(<<>>)}
\* what the tool call passes as sdl_dir, and what process.env.SDL_DIR holds
DirInputs == {Undefined} \cup DirStrings
NoCall == [arg |-> Undefined, env |-> Undefined, result |-> <<>>]

\* ------------------------------------------------------------------------
\* Inputs
\* ------------------------------------------------------------------------

N(id, kind) == [id |-> id, kind |-> kind]
E(id, source, target) == [id |-> id, source |-> source, target |-> target]
G(ns, es) == [nodes |-> ns, edges |-> es]

\* Bounds of the exhaustive family of small graphs.
MaxNodes == 2
MaxEdges == 1

IdPool == <<"a", "b", "c", "d">>
EdgeIdPool == <<"e1", "e2", "e3">>
\* person 58x76, rectangle 150x62, diamond 76x76; "custom" is in no layer row
Kinds == {"actor", "frontend", "gateway", "custom"}
\* identifiers an edge may name although no node carries them
DanglingIds == {"ghost", "constructor"}

\* Every order of the first n pool identifiers, n <= MaxNodes.
IdOrders ==
    UNION {{o \in [1..n -> {IdPool[i] : i \in 1..n}] :
               \A i, j \in 1..n : o[i] = o[j] => i = j} : n \in 0..MaxNodes}

NodeLists ==
    UNION {{[i \in 1..Len(o) |-> N(o[i], ks[i])] : ks \in [1..Len(o) -> Kinds]} :
           o \in IdOrders}

EdgeLists(ns) ==
    LET ends == NodeIds(ns) \cup DanglingIds
    IN UNION {{[i \in 1..n |-> E(EdgeIdPool[i], st[i][1], st[i][2])] :
                  st \in [1..n -> ends \X ends]} : n \in 0..MaxEdges}

SmallGraphs == UNION {{G(ns, es) : es \in EdgeLists(ns)} : ns \in NodeLists}

\* Three layers; the total of round 0 is 1, of every later round 2.
Oscillating ==
    G(<<N("a", "frontend"), N("b", "frontend"),
        N("c", "cdn"), N("d", "cdn"), N("e", "cdn"), N("f", "cdn"),
        N("g", "microservice"), N("h", "microservice")>>,
      <<E("e1", "a", "d"), E("e2", "b", "c"), E("e3", "b", "e"), E("e4", "d", "g"),
        E("e5", "d", "h"), E("e6", "e", "g"), E("e7", "f", "g"), E("e8", "f", "h")>>)

\* Every round has total 0, and round 0 leaves another order than round 1.
Tied ==
    G(<<N("a", "frontend"),
        N("b", "cdn"), N("c", "cdn"), N("d", "cdn"), N("e", "cdn"),
        N("f", "microservice"), N("g", "microservice")>>,
      <<E("e1", "a", "d"), E("e2", "a", "e"), E("e3", "b", "f"),
        E("e4", "c", "g"), E("e5", "e", "g")>>)

\* The totals are 1, 0, 0, 0.
Improving ==
    G(<<N("a", "frontend"), N("b", "frontend"), N("c", "frontend"),
        N("d", "cdn"), N("e", "cdn"), N("f", "cdn")>>,
      <<E("e1", "a", "d"), E("e2", "a", "f"), E("e3", "b", "d"),
        E("e4", "b", "e"), E("e5", "c", "f")>>)

\* The node-list order has no crossing; every round has total 1.
Worsening ==
    G(<<N("a", "frontend"), N("b", "frontend"),
        N("c", "cdn"), N("d", "cdn"), N("e", "cdn"),
        N("f", "microservice")>>,
      <<E("e1", "a", "c"), E("e2", "b", "d"), E("e3", "b", "e"), E("e4", "d", "f")>>)

\* An edge from a node to itself next to two edges to a neighbour.
SelfLoop ==
    G(<<N("a", "frontend"), N("b", "gateway")>>,
      <<E("e1", "a", "a"), E("e2", "a", "b"), E("e3", "a", "b")>>)

\* A -> B, A -> C with B and C in one layer, and a dangling edge.
FanOut ==
    G(<<N("a", "actor"), N("b", "microservice"), N("c", "database"), N("d", "cache")>>,
      <<E("e1", "a", "b"), E("e2", "a", "c"), E("e3", "c", "ghost"), E("e4", "d", "c")>>)

\* Two layers of two; only the second node of each layer has an edge.
Lonely ==
    G(<<N("a", "frontend"), N("d", "frontend"), N("b", "cdn"), N("c", "cdn")>>,
      <<E("e1", "d", "c")>>)

\* The nodes of Worsening with the second and the fourth edge drawn backwards.
Backwards ==
    G(<<N("a", "frontend"), N("b", "frontend"),
        N("c", "cdn"), N("d", "cdn"), N("e", "cdn"),
        N("f", "microservice")>>,
      <<E("e1", "a", "c"), E("e2", "d", "b"), E("e3", "b", "e"), E("e4", "f", "d")>>)

\* Eight nodes in layer 0 and no edge: six rectangles, a person, a rectangle.
Tall ==
    G(<<N("a", "frontend"), N("b", "frontend"), N("c", "frontend"), N("d", "frontend"),
        N("e", "frontend"), N("f", "frontend"), N("g", "actor"), N("h", "frontend")>>,
      <<>>)

\* Layers 0 and 2 with no node in layer 1: two edges across the gap that
\* cross in node-list order, and an edge inside layer 2.
Gap ==
    G(<<N("a", "frontend"), N("b", "frontend"), N("c", "microservice"), N("d", "microservice")>>,
      <<E("e1", "a", "d"), E("e2", "b", "c"), E("e3", "c", "d")>>)

Catalogue ==
    {Oscillating, Tied, Improving, Worsening, SelfLoop, FanOut, Lonely, Backwards, Tall, Gap}

Graphs == SmallGraphs \cup Catalogue

\* A theme with the authoring tool's dimensions, and one with other numbers
\* and no shape overrides.
AuthoringTheme ==
    [name |-> "authoring",
     layout |-> [layer_spacing_x |-> LAYER_X_GAP, node_spacing_y |-> NODE_Y_GAP,
                 margin |-> MARGIN],
     nodes |-> [width |-> NODE_W, height |-> NODE_H,
                shapes |-> [diamond |-> [width |-> 76, height |-> 76],
                            cylinder |-> [width |-> 136, height |-> 68],
                            person |-> [width |-> 58, height |-> 76]]]]
CompactTheme ==
    [name |-> "compact",
     layout |-> [layer_spacing_x |-> 180, node_spacing_y |-> 40, margin |-> 20],
     nodes |-> [width |-> 120, height |-> 48, shapes |-> <<>>]]
Themes == {AuthoringTheme, CompactTheme}
NoTheme == [name |-> "none"]

\* What loadJSON(layoutPath) finds: no readable file, or a saved map ({} too).
LayoutFiles ==
    {[present |-> FALSE, saved |-> <<>>],
     [present |-> TRUE, saved |-> <<>>],
     [present |-> TRUE, saved |-> ("b" :> [x |-> 10, y |-> 400])],
     [present |-> TRUE, saved |-> ("a" :> [x |-> 300, y |-> 20]) @@ ("zz" :> [x |-> 7, y |-> 9])]}

\* ------------------------------------------------------------------------
\* State
\* ------------------------------------------------------------------------

VARIABLES
    tool,           \* "renderer" (one run of render.js) or "authoring" (the App)
    pc,             \* where the tool stands: "start", "sweep", "overlay",
                    \* "route", "done", "threw" or, in the App, "idle"
    nodes, edges,   \* arguments of the layout call
    theme,          \* the renderer's theme
    layers, bestLayers, bestCrossings, round,  \* locals of computeLayout / layout
    totals, orders, \* history: total and layers at the end of each round
    positions,      \* renderer: let positions; App: base of the load effect
    layoutFile,     \* renderer: what layout.json held
    portY, paths,   \* the port index and the path of every edge, as drawn
    sdl, nodePositions, dragRef, dragging, layoutSaved,  \* App state and ref
    storage,        \* window.storage: key -> value
    gets, sets, resets,  \* storage calls in flight
    generations, pointerEvents, \* how many graphs were set, how many pointer events handled
    mcp             \* MCP server: sdl_dir of the tool call, SDL_DIR, and what resolveDir returned

engineVars == <<nodes, edges, layers, bestLayers, bestCrossings, round, totals, orders>>
appVars == <<sdl, nodePositions, dragRef, dragging, layoutSaved, storage,
             gets, sets, resets, generations, pointerEvents>>
vars == <<tool, pc, theme, engineVars, positions, layoutFile, portY, paths, appVars, mcp>>

\* useState(null) for sdl: no nodes, no edges.
NoSdl == G(<<>>, <<>>)
\* nodePositions is null or a map with at least one key; null is the empty map.
Null == <<>>

InitEngine ==
    /\ layers = <<>> /\ bestLayers = <<>> /\ bestCrossings = Infinity
    /\ round = 0 /\ totals = <<>> /\ orders = <<>>
    /\ positions = <<>> /\ portY = <<>> /\ paths = <<>>
    /\ layoutFile = [present |-> FALSE, saved |-> <<>>]

InitAppVars ==
    /\ sdl = NoSdl /\ nodePositions = Null /\ dragRef = <<>>
    /\ dragging = FALSE /\ layoutSaved = FALSE /\ storage = <<>>
    /\ gets = {} /\ sets = {} /\ resets = {}
    /\ generations = 0 /\ pointerEvents = 0

\* run(): nodes.json, edges.json and the theme are read, computeLayout is entered.
InitRenderer ==
    /\ tool = "renderer" /\ pc = "start"
    /\ \E g \in Graphs : nodes = g.nodes /\ edges = g.edges
    /\ theme \in Themes
    /\ InitEngine /\ InitAppVars /\ mcp = NoCall

\* The App after its first render.
InitApp ==
    /\ tool = "authoring" /\ pc = "idle"
    /\ nodes = <<>> /\ edges = <<>> /\ theme = NoTheme
    /\ InitEngine /\ InitAppVars /\ mcp = NoCall

\* A tool of the MCP server is called: sdl_dir may be passed, SDL_DIR may be set.
InitMcp ==
    /\ tool = "mcp" /\ pc = "call"
    /\ nodes = <<>> /\ edges = <<>> /\ theme = NoTheme
    /\ InitEngine /\ InitAppVars
    /\ \E a \in DirInputs, v \in DirInputs : mcp = [arg |-> a, env |-> v, result |-> <<>>]

Init == InitRenderer \/ InitApp \/ InitMcp

\* ------------------------------------------------------------------------
\* The layout call, step by step (computeLayout and layout)
\* ------------------------------------------------------------------------

\* Group the nodes by layer and build the adjacency; a throw of buildAdjacency
\* ends run(), a throw of buildAdj is caught by the load effect.
AssignLayers ==
    /\ pc = "start"
    /\ IF tool = "renderer"
       THEN IF buildAdjacencyThrows(nodes, edges)
            THEN /\ pc' = "threw"
                 /\ UNCHANGED <<layers, bestLayers, bestCrossings, round, totals, orders>>
            ELSE /\ pc' = "sweep"
                 /\ layers' = initialLayers(nodes)
                 /\ bestLayers' = initialLayers(nodes)
                 /\ bestCrossings' = Infinity
                 /\ round' = 0 /\ totals' = <<>> /\ orders' = <<>>
       ELSE IF buildAdjThrows(nodes, edges)
            THEN /\ pc' = "idle"
                 /\ UNCHANGED <<layers, bestLayers, bestCrossings, round, totals, orders>>
            ELSE /\ pc' = "sweep"
                 /\ layers' = layoutLayers(nodes)
                 /\ bestLayers' = layoutLayers(nodes)
                 /\ bestCrossings' = Infinity
                 /\ round' = 0 /\ totals' = <<>> /\ orders' = <<>>
    /\ UNCHANGED <<tool, mcp, theme, nodes, edges, positions, layoutFile, portY, paths, appVars>>

\* One iteration of the loop: forward pass, backward pass, total, keep best.
SweepRound ==
    /\ pc = "sweep"
    /\ round < ROUNDS
    /\ IF tool = "renderer"
       THEN LET swept == sweep(layers, buildAdjacency(nodes, edges))
                total == totalCrossings(swept, edges, 1)
                kept == keepBest(total, swept, bestLayers, bestCrossings)
            IN /\ layers' = swept
               /\ bestLayers' = kept.bestLayers
               /\ bestCrossings' = kept.bestCrossings
               /\ totals' = Append(totals, total)
               /\ orders' = Append(orders, swept)
       ELSE LET st == layoutRound([layers |-> layers, best |-> bestLayers,
                                   bestX |-> bestCrossings],
                                  buildAdj(nodes, edges), edges)
            IN /\ layers' = st.layers
               /\ bestLayers' = st.best
               /\ bestCrossings' = st.bestX
               /\ totals' = Append(totals, layoutTotal(st.layers, edges, 1))
               /\ orders' = Append(orders, st.layers)
    /\ round' = round + 1
    /\ UNCHANGED <<tool, mcp, pc, theme, nodes, edges, positions, layoutFile, portY, paths, appVars>>

\* computeLayout: layers = bestLayers, pixel positions, return positions.
AssignPixelPositions ==
    /\ tool = "renderer"
    /\ pc = "sweep"
    /\ round >= ROUNDS
    /\ layers' = bestLayers
    /\ positions' = assignPositions(bestLayers, layerIndices(nodes), theme)
    /\ pc' = "overlay"
    /\ UNCHANGED <<tool, mcp, theme, nodes, edges, bestLayers, bestCrossings, round, totals,
                   orders, layoutFile, portY, paths, appVars>>

\* ------------------------------------------------------------------------
\* The rest of run(): overlay of layout.json, ports, paths
\* ------------------------------------------------------------------------

OverlayLayout ==
    /\ tool = "renderer"
    /\ pc = "overlay"
    /\ \E f \in LayoutFiles :
        /\ layoutFile' = f
        /\ positions' = IF f.present THEN overlaySaved(positions, nodes, f.saved)
                        ELSE positions
    /\ pc' = "route"
    /\ UNCHANGED <<tool, mcp, theme, engineVars, portY, paths, appVars>>

RouteEdges ==
    /\ tool = "renderer"
    /\ pc = "route"
    /\ portY' = buildPortIndex(edges, positions, nodes, theme)
    /\ paths' = [i \in 1..Len(edges) |->
                    edgeSVG(edges[i], positions, nodes, theme,
                            buildPortIndex(edges, positions, nodes, theme))]
    /\ pc' = "done"
    /\ UNCHANGED <<tool, mcp, theme, engineVars, positions, layoutFile, appVars>>

NextRenderer == AssignLayers \/ SweepRound \/ AssignPixelPositions \/ OverlayLayout \/ RouteEdges

\* ------------------------------------------------------------------------
\* The authoring tool (App)
\* ------------------------------------------------------------------------

\* Bounds of the App's runs.
MaxGenerations == 2
MaxPointerEvents == 4

\* The graphs a generation may set.
PairAB == G(<<N("a", "actor"), N("b", "gateway")>>, <<E("e1", "a", "b")>>)
PairBA == G(<<N("b", "gateway"), N("a", "actor")>>, <<E("e1", "a", "b")>>)
TripleABC ==
    G(<<N("a", "actor"), N("b", "gateway"), N("c", "custom")>>,
      <<E("e1", "a", "b"), E("e2", "b", "c")>>)
Broken == G(<<N("a", "actor"), N("c", "custom")>>, <<E("e1", "a", "constructor")>>)
AppGraphs == {PairAB, PairBA, TripleABC, Broken, NoSdl}

\* Where in a node the pointer goes down, and where the pointer may move to
\* (SVG coordinates, as toSVGCoords returns them).
Grab == [x |-> 10, y |-> 10]
PointerPoints == {[x |-> 20, y |-> 30], [x |-> 400, y |-> 200]}

RECURSIVE Members(_)
\* The members of an object, in the fixed order of its keys.
Members(m) ==
    IF DOMAIN m = {} THEN <<>>
    ELSE LET id == CHOOSE k \in DOMAIN m : TRUE
         IN <<[id |-> id, value |-> m[id]]>>
            \o Members([k \in DOMAIN m \ {id} |-> m[k]])

\* JSON.stringify(toSave): the text, as the list of its members.
JSONstringify(m) == Members(m)

\* JSON.parse(result.value): an object with one key per member name; of two
\* members with one name the later wins.
JSONparse(text) ==
    [id \in {text[i].id : i \in 1..Len(text)} |->
        LET k == CHOOSE i \in 1..Len(text) :
                    text[i].id = id /\ \A j \in 1..Len(text) : text[j].id = id => j <= i
        IN text[k].value]

\* The render of the diagram panel: ports and paths from the live positions,
\* nothing while nodePositions is null.
renderPortY(s, np) ==
    IF np = Null THEN <<>> ELSE buildPortsLive(s.edges, np, s.nodes)
renderPaths(s, np) ==
    IF np = Null THEN <<>>
    ELSE [i \in 1..Len(s.edges) |->
             edgePath(s.edges[i], np, s.nodes, buildPortsLive(s.edges, np, s.nodes))]

\* setSdl(parsed), the render that follows, and the start of the load effect,
\* whose local base is not assigned yet.
Generate ==
    /\ tool = "authoring"
    /\ pc = "idle"
    /\ generations < MaxGenerations
    /\ \E g \in AppGraphs :
        /\ sdl' = g
        /\ IF Len(g.nodes) = 0
           THEN /\ nodePositions' = Null
                /\ layoutSaved' = FALSE
                /\ pc' = "idle"
                /\ UNCHANGED <<nodes, edges>>
           ELSE /\ nodes' = g.nodes
                /\ edges' = g.edges
                /\ pc' = "start"
                /\ UNCHANGED <<nodePositions, layoutSaved>>
        /\ portY' = renderPortY(g, nodePositions')
        /\ paths' = renderPaths(g, nodePositions')
    /\ positions' = <<>>
    /\ generations' = generations + 1
    /\ UNCHANGED <<tool, mcp, theme, layers, bestLayers, bestCrossings, round, totals, orders,
                   layoutFile, dragRef, dragging, storage, gets, sets, resets,
                   pointerEvents>>

\* layout() returns base; the effect calls window.storage.get(key).
LoadEffect ==
    /\ tool = "authoring"
    /\ pc = "sweep"
    /\ round >= ROUNDS
    /\ positions' = layoutPositions(bestLayers, li(nodes))
    /\ gets' = gets \cup {[id |-> generations, key |-> layoutKey(nodes),
                           base |-> layoutPositions(bestLayers, li(nodes)),
                           read |-> FALSE, found |-> FALSE, value |-> <<>>]}
    /\ pc' = "idle"
    /\ UNCHANGED <<tool, mcp, theme, engineVars, layoutFile, portY, paths, sdl, nodePositions,
                   dragRef, dragging, layoutSaved, storage, sets, resets,
                   generations, pointerEvents>>

\* window.storage.get(key) reads the store, or fails.
StorageGet ==
    /\ tool = "authoring"
    /\ pc = "idle"
    /\ \E g \in gets : \E fails \in BOOLEAN :
        /\ ~g.read
        /\ gets' = (gets \ {g}) \cup
              {IF ~fails /\ g.key \in DOMAIN storage
               THEN [g EXCEPT !.read = TRUE, !.found = TRUE, !.value = storage[g.key]]
               ELSE [g EXCEPT !.read = TRUE]}
    /\ UNCHANGED <<tool, mcp, pc, theme, engineVars, positions, layoutFile, portY, paths, sdl,
                   nodePositions, dragRef, dragging, layoutSaved, storage, sets, resets,
                   generations, pointerEvents>>

\* The rest of the effect's async function: merge and setNodePositions.
LoadApply ==
    /\ tool = "authoring"
    /\ pc = "idle"
    /\ \E g \in gets :
        /\ g.read
        /\ gets' = gets \ {g}
        /\ IF g.found
           THEN /\ nodePositions' = mergeSaved(g.base, JSONparse(g.value))
                /\ layoutSaved' = TRUE
           ELSE /\ nodePositions' = g.base
                /\ layoutSaved' = FALSE
    /\ portY' = renderPortY(sdl, nodePositions')
    /\ paths' = renderPaths(sdl, nodePositions')
    /\ UNCHANGED <<tool, mcp, pc, theme, engineVars, positions, layoutFile, sdl, dragRef,
                   dragging, storage, sets, resets, generations, pointerEvents>>

\* The diagram's svg, and with it the pointer handlers, exists while
\* nodePositions is not null; a node is drawn when it has a position.
Drawn(id) == nodePositions # Null /\ id \in DOMAIN nodePositions

onNodeDown ==
    /\ tool = "authoring"
    /\ pc = "idle"
    /\ pointerEvents < MaxPointerEvents
    /\ \E i \in 1..Len(sdl.nodes) :
        LET nodeId == sdl.nodes[i].id
            p == nodePositions[nodeId]
        IN /\ Drawn(nodeId)
           /\ dragRef' = <<[nodeId |-> nodeId,
                            startSx |-> p.x + Grab.x, startSy |-> p.y + Grab.y,
                            origX |-> p.x, origY |-> p.y]>>
    /\ dragging' = TRUE
    /\ pointerEvents' = pointerEvents + 1
    /\ UNCHANGED <<tool, mcp, pc, theme, engineVars, positions, layoutFile, portY, paths, sdl,
                   nodePositions, layoutSaved, storage, gets, sets, resets, generations>>

\* A move that writes { x, y } alone instead of { ...prev[nodeId], x, y }.
onSVGMoveReplacing ==
    /\ tool = "authoring"
    /\ pc = "idle"
    /\ nodePositions # Null
    /\ dragRef # <<>>
    /\ pointerEvents < MaxPointerEvents
    /\ \E pt \in PointerPoints :
        LET d == dragRef[1]
        IN nodePositions' = (d.nodeId :> [x |-> d.origX + (pt.x - d.startSx),
                                          y |-> d.origY + (pt.y - d.startSy)])
                            @@ nodePositions
    /\ portY' = renderPortY(sdl, nodePositions')
    /\ paths' = renderPaths(sdl, nodePositions')
    /\ pointerEvents' = pointerEvents + 1
    /\ UNCHANGED <<tool, mcp, pc, theme, engineVars, positions, layoutFile, sdl, dragRef,
                   dragging, layoutSaved, storage, gets, sets, resets, generations>>

\* setNodePositions(prev => ({...prev, [nodeId]: {...prev[nodeId], x, y}}))
onSVGMove ==
    /\ tool = "authoring"
    /\ pc = "idle"
    /\ nodePositions # Null
    /\ dragRef # <<>>
    /\ pointerEvents < MaxPointerEvents
    /\ \E pt \in PointerPoints :
        LET d == dragRef[1]
            x == d.origX + (pt.x - d.startSx)
            y == d.origY + (pt.y - d.startSy)
            entry == IF d.nodeId \in DOMAIN nodePositions
                     THEN [nodePositions[d.nodeId] EXCEPT !.x = x, !.y = y]
                     ELSE [x |-> x, y |-> y]
        IN nodePositions' = (d.nodeId :> entry) @@ nodePositions
    /\ portY' = renderPortY(sdl, nodePositions')
    /\ paths' = renderPaths(sdl, nodePositions')
    /\ pointerEvents' = pointerEvents + 1
    /\ UNCHANGED <<tool, mcp, pc, theme, engineVars, positions, layoutFile, sdl, dragRef,
                   dragging, layoutSaved, storage, gets, sets, resets, generations>>

\* Pointer up or pointer leave: end the drag and call window.storage.set.
onSVGUp ==
    /\ tool = "authoring"
    /\ pc = "idle"
    /\ nodePositions # Null
    /\ dragRef # <<>>
    /\ pointerEvents < MaxPointerEvents
    /\ dragRef' = <<>>
    /\ dragging' = FALSE
    /\ pointerEvents' = pointerEvents + 1
    /\ sets' = IF Len(sdl.nodes) = 0 THEN sets
               ELSE sets \cup {[id |-> pointerEvents + 1, key |-> layoutKey(sdl.nodes),
                                value |-> JSONstringify(toSave(nodePositions))]}
    /\ UNCHANGED <<tool, mcp, pc, theme, engineVars, positions, layoutFile, portY, paths, sdl,
                   nodePositions, layoutSaved, storage, gets, resets, generations>>

\* window.storage.set(key, value) writes and its then() runs, or it rejects.
StorageSet ==
    /\ tool = "authoring"
    /\ pc = "idle"
    /\ \E w \in sets : \E fails \in BOOLEAN :
        /\ sets' = sets \ {w}
        /\ IF fails
           THEN UNCHANGED <<storage, layoutSaved>>
           ELSE /\ storage' = (w.key :> w.value) @@ storage
                /\ layoutSaved' = TRUE
    /\ UNCHANGED <<tool, mcp, pc, theme, engineVars, positions, layoutFile, portY, paths, sdl,
                   nodePositions, dragRef, dragging, gets, resets, generations, pointerEvents>>

\* The reset layout button: shown while layoutSaved && sdl?.nodes?.length.
ResetClick ==
    /\ tool = "authoring"
    /\ pc = "idle"
    /\ layoutSaved
    /\ Len(sdl.nodes) > 0
    /\ resets' = resets \cup {[key |-> layoutKey(sdl.nodes), nodes |-> sdl.nodes,
                               edges |-> sdl.edges]}
    /\ UNCHANGED <<tool, mcp, pc, theme, engineVars, positions, layoutFile, portY, paths, sdl,
                   nodePositions, dragRef, dragging, layoutSaved, storage, gets, sets,
                   generations, pointerEvents>>

\* After await window.storage.delete(key): layout, setNodePositions(base).
\* A throw of layout here is caught by nothing and ends the handler.
ResetResume ==
    /\ tool = "authoring"
    /\ pc = "idle"
    /\ \E r \in resets : \E fails \in BOOLEAN :
        /\ resets' = resets \ {r}
        /\ storage' = IF fails THEN storage
                      ELSE [k \in DOMAIN storage \ {r.key} |-> storage[k]]
        /\ IF buildAdjThrows(r.nodes, r.edges)
           THEN UNCHANGED <<nodePositions, layoutSaved>>
           ELSE /\ nodePositions' = layout(r.nodes, r.edges)
                /\ layoutSaved' = FALSE
    /\ portY' = renderPortY(sdl, nodePositions')
    /\ paths' = renderPaths(sdl, nodePositions')
    /\ UNCHANGED <<tool, mcp, pc, theme, engineVars, positions, layoutFile, sdl, dragRef,
                   dragging, gets, sets, generations, pointerEvents>>

NextApp ==
    \/ Generate \/ LoadEffect \/ StorageGet \/ LoadApply
    \/ onNodeDown \/ onSVGMove \/ onSVGUp \/ StorageSet
    \/ ResetClick \/ ResetResume

\* ------------------------------------------------------------------------
\* The MCP server's tool call
\* ------------------------------------------------------------------------

\* const resolved = resolveDir(sdl_dir)
ResolveDirCall ==
    /\ tool = "mcp" /\ pc = "call"
    /\ mcp' = [mcp EXCEPT !.result = resolveDir(mcp.arg, mcp.env)]
    /\ pc' = "returned"
    /\ UNCHANGED <<tool, theme, engineVars, positions, layoutFile, portY, paths, appVars>>

NextMcp == ResolveDirCall

Next == NextRenderer \/ NextApp \/ NextMcp

Spec == Init /\ [][Next]_vars

\* ------------------------------------------------------------------------
\* Properties
\* ------------------------------------------------------------------------

\* computeLayout or layout has returned its position map for nodes, edges.
Returned == positions # <<>>

\* The index of the earliest round whose total is the least of the totals.
EarliestMin(ts) ==
    CHOOSE m \in 1..Len(ts) :
        /\ \A r \in 1..Len(ts) : ts[m] <= ts[r]
        /\ \A r \in 1..(m - 1) : ts[r] > ts[m]

\* C1: every node of the position map returned by computeLayout and by layout
\* has layer = assignLayer(kind) (an overlay of saved x, y keeps it), and in
\* every round each node stands in the layer list of its own layer: a sweep
\* reorders inside a layer and moves no node to another layer.
C1_LayerIsAssignLayer ==
    /\ Returned =>
          \A i \in 1..Len(nodes) :
              positions[nodes[i].id].layer = assignLayer(nodes[i].kind)
    /\ pc = "sweep" =>
          \A k \in 1..Len(layers) :
              /\ \A i \in 1..Len(layers[k]) :
                    assignLayer(layers[k][i].kind) = layerIndices(nodes)[k]
              /\ \A i \in 1..Len(bestLayers[k]) :
                    assignLayer(bestLayers[k][i].kind) = layerIndices(nodes)[k]

\* A returned map of three layers in which a sweep has changed an order.
C1_Witness ==
    /\ tool = "renderer" /\ pc = "overlay" /\ Returned
    /\ Len(bestLayers) = 3
    /\ bestLayers # initialLayers(nodes)
    /\ \E i \in 1..Len(nodes) : positions[nodes[i].id].layer = 2

\* C2 (state part): the loop ends after exactly 4 rounds; the tracked best is
\* at every moment the least total seen so far and the order kept is that of
\* the earliest round with that total; the map returned places that order.
C2_State ==
    /\ pc = "sweep" => round <= ROUNDS /\ Len(totals) = round /\ Len(orders) = round
    /\ (pc = "sweep" /\ round > 0) =>
          /\ bestCrossings = Finite(totals[EarliestMin(totals)])
          /\ bestLayers = orders[EarliestMin(totals)]
    /\ Returned =>
          /\ round = 4 /\ Len(totals) = 4
          /\ bestLayers = orders[EarliestMin(totals)]
          /\ tool = "authoring" =>
                positions = layoutPositions(orders[EarliestMin(totals)], li(nodes))
          /\ (tool = "renderer" /\ pc = "overlay") =>
                positions = assignPositions(orders[EarliestMin(totals)],
                                            layerIndices(nodes), theme)

\* C2 (step part): a round never raises the tracked best crossing count.
C2_Step ==
    round' = round + 1 =>
        /\ ~bestCrossings'.inf
        /\ bestCrossings.inf \/ bestCrossings'.val <= bestCrossings.val

\* C2: the engine runs exactly 4 rounds, the tracked best crossing count never
\* increases from one round to the next, and the order returned is the one of
\* the earliest round whose total is the minimum of the 4 totals, not the
\* order of the last round.
C2_FourRoundsKeepEarliestBest == [](C2_State) /\ [][C2_Step]_vars

\* A returned layout whose last round has more crossings than the round kept.
C2_Witness ==
    /\ Returned /\ round = 4
    /\ totals[4] > bestCrossings.val
    /\ orders[4] # bestLayers

\* The result merged is the computed map computed overlaid with saved.
MergedFrom(merged, computed, saved) ==
    /\ DOMAIN merged = DOMAIN computed
    /\ \A id \in DOMAIN computed :
        /\ merged[id].layer = computed[id].layer
        /\ IF id \in DOMAIN saved
           THEN merged[id].x = saved[id].x /\ merged[id].y = saved[id].y
           ELSE merged[id].x = computed[id].x /\ merged[id].y = computed[id].y

\* The renderer's overlay step: positions before is the computed map.
C3_RendererStep ==
    (tool = "renderer" /\ pc = "overlay" /\ pc' = "route") =>
        MergedFrom(positions', positions,
                   IF layoutFile'.present THEN layoutFile'.saved ELSE <<>>)

\* The App's load continuation for the storage call g.
C3_AppStep ==
    \A g \in gets :
        (g.read /\ g \notin gets') =>
            MergedFrom(nodePositions', g.base,
                       IF g.found THEN JSONparse(g.value) ELSE <<>>)

KeyIds == {"a", "b", "c", "d", "ab", "a-b", "zz"}

RemoveAt(seq, i) == SubSeq(seq, 1, i - 1) \o SubSeq(seq, i + 1, Len(seq))

\* The key of the current node set differs from the key with one node more
\* and from the key with one node less.
C4_KeyChanges ==
    tool = "authoring" =>
        /\ \A id \in KeyIds \ NodeIds(sdl.nodes) :
              layoutKey(Append(sdl.nodes, N(id, "custom"))) # layoutKey(sdl.nodes)
        /\ \A i \in 1..Len(sdl.nodes) :
              layoutKey(RemoveAt(sdl.nodes, i)) # layoutKey(sdl.nodes)
        /\ layoutKey(TripleABC.nodes) # layoutKey(PairAB.nodes)

\* A load finds a record only under its own key, and a load that found none
\* sets nodePositions to the computed layout.
C4_LoadStep ==
    \A g \in gets :
        /\ (~g.read /\ g \notin gets') =>
              \E h \in gets' :
                  /\ h.id = g.id /\ h.read
                  /\ h.found => (g.key \in DOMAIN storage /\ h.value = storage[g.key])
        /\ (g.read /\ g \notin gets' /\ ~g.found) => nodePositions' = g.base

\* C4: layoutKey of a node set differs from layoutKey of that set with one
\* identifier added or removed; so a load looks up only the record of the very
\* node set, and after a save for {A,B} the load for {A,B,C} finds no record
\* and sets nodePositions to the freshly computed layout, no override applied.
C4_KeyInvalidation == [](C4_KeyChanges) /\ [][C4_LoadStep]_vars

\* The store holds a dragged layout for {a,b} alone, the graph is {a,b,c}, its
\* load is over and nodePositions is the computed layout.
C4_Witness ==
    /\ tool = "authoring" /\ sdl = TripleABC
    /\ DOMAIN storage = {layoutKey(PairAB.nodes)}
    /\ gets = {} /\ sets = {} /\ Returned
    /\ nodePositions = positions
    /\ \E id \in DOMAIN JSONparse(storage[layoutKey(PairAB.nodes)]) :
          JSONparse(storage[layoutKey(PairAB.nodes)])[id].x # positions[id].x

\* The diagram is drawn: the renderer has routed, or the App holds positions.
Routing == (tool = "renderer" /\ pc = "done") \/ (tool = "authoring" /\ nodePositions # Null)
\* The positions, nodes, edges and dimensions the drawn diagram was routed with.
drawnPositions == IF tool = "renderer" THEN positions ELSE nodePositions
drawnNodes == IF tool = "renderer" THEN nodes ELSE sdl.nodes
drawnEdges == IF tool = "renderer" THEN edges ELSE sdl.edges
drawnDims(kind) == IF tool = "renderer" THEN getNodeDims(kind, theme) ELSE nodeDims(kind)
\* The edges grouped on the right and on the left side of each node.
drawnSides ==
    IF tool = "renderer"
    THEN LET sd == indexSides(edges, positions, nodes, theme, Len(edges))
         IN [right |-> sd.rightEdges, left |-> sd.leftEdges]
    ELSE LET sd == liveSides(sdl.edges, nodePositions, sdl.nodes, Len(sdl.edges))
         IN [right |-> sd.re, left |-> sd.le]

\* The group of edge identifiers has one port each at node nid, pairwise
\* distinct, strictly inside the node's height.
PortsOfGroup(group, nid) ==
    LET top == drawnPositions[nid].y
        h == drawnDims(KindOf(drawnNodes, nid)).h
    IN /\ \A i \in 1..Len(group) :
            /\ <<group[i], nid>> \in DOMAIN portY
            /\ RatLess([num |-> top, den |-> 1], portY[<<group[i], nid>>])
            /\ RatLess(portY[<<group[i], nid>>], [num |-> top + h, den |-> 1])
       /\ \A i, j \in 1..Len(group) :
            i < j => ~RatEq(portY[<<group[i], nid>>], portY[<<group[j], nid>>])

\* C6: with unique edge identifiers, for every node and each side on which
\* N >= 1 routed edges are grouped, the port index holds N pairwise distinct
\* port y-values for those edges at that node, each strictly between the
\* node's top and its top plus its height.
C6_PortsDistinctInside ==
    Routing =>
        /\ \A nid \in DOMAIN drawnSides.right : PortsOfGroup(drawnSides.right[nid], nid)
        /\ \A nid \in DOMAIN drawnSides.left : PortsOfGroup(drawnSides.left[nid], nid)

\* The sides of the drawn path of edge e follow the x centres.
SidesByCentre(path, e) ==
    LET sp == drawnPositions[e.source]
        tp == drawnPositions[e.target]
        sw == drawnDims(KindOf(drawnNodes, e.source)).w
        tw == drawnDims(KindOf(drawnNodes, e.target)).w
        right == 2 * sp.x + sw <= 2 * tp.x + tw
    IN /\ path.toR = right
       /\ path.sx = (IF right THEN sp.x + sw ELSE sp.x)
       /\ path.tx = (IF right THEN tp.x ELSE tp.x + tw)

C7_State ==
    Routing =>
        /\ Len(paths) = Len(drawnEdges)
        /\ \A i \in 1..Len(paths) :
              paths[i].drawn => SidesByCentre(paths[i], drawnEdges[i])

\* A pointer handler leaves the layer index of every positioned node alone.
C7_Step ==
    pointerEvents' # pointerEvents =>
        \A id \in DOMAIN nodePositions :
            "layer" \in DOMAIN nodePositions[id] =>
                /\ id \in DOMAIN nodePositions'
                /\ nodePositions'[id].layer = nodePositions[id].layer

\* C7: an edge leaves its source on the right and enters its target on the
\* left iff source.x + sourceWidth/2 <= target.x + targetWidth/2, else the sides
\* are swapped; the current x decides, not the layer, so dragging B left of A
\* in A -> B flips the sides while the layer indices stay as they were.
C7_SidesFollowX == [](C7_State) /\ [][C7_Step]_vars

\* A -> B with B dragged left of A: the edge leaves A on the left, and the
\* layers are still 0 and 1.
C7_Witness ==
    /\ tool = "authoring" /\ sdl = PairAB
    /\ dragRef # <<>> /\ dragRef[1].nodeId = "b"
    /\ nodePositions # Null
    /\ nodePositions["b"].x # dragRef[1].origX
    /\ paths[1].drawn /\ ~paths[1].toR
    /\ paths[1].sx = nodePositions["a"].x
    /\ nodePositions["a"].layer = 0 /\ nodePositions["b"].layer = 1

\* The edges that name a node at both ends, and the others.
Anchored(es, ns) ==
    {i \in 1..Len(es) : es[i].source \in NodeIds(ns) /\ es[i].target \in NodeIds(ns)}
Dangling(es, ns) == (1..Len(es)) \ Anchored(es, ns)

\* What run() draws for nodes and the edge list es under the layout file f.
drawingOf(ns, es, th, f) ==
    LET computed == computeLayout(ns, es, th)
        pos == IF f.present THEN overlaySaved(computed, ns, f.saved) ELSE computed
        py == buildPortIndex(es, pos, ns, th)
    IN [positions |-> pos, portY |-> py,
        paths |-> [i \in 1..Len(es) |-> edgeSVG(es[i], pos, ns, th, py)]]

\* C8: an edge whose source or target has no position or no node record is
\* skipped without error: it gets no port and no path, and every node position
\* and every other edge's side, port and path are those obtained from the same
\* inputs with that edge removed from the edge list.
C8_DanglingEdgeSkipped ==
    /\ pc # "threw"
    /\ Routing =>
          \A i \in Dangling(drawnEdges, drawnNodes) :
              /\ ~paths[i].drawn
              /\ \A c \in DOMAIN portY : c[1] # drawnEdges[i].id
    /\ (tool = "renderer" /\ pc = "done") =>
          LET kept == FilterSeq(edges, Anchored(edges, nodes))
              whole == drawingOf(nodes, kept, theme, layoutFile)
          IN /\ positions = whole.positions
             /\ portY = whole.portY
             /\ FilterSeq(paths, Anchored(edges, nodes)) = whole.paths

RECURSIVE HeightsBefore(_, _, _)
\* The sum over the nodes at indices 0 .. i-1 of a layer of height + gap.
HeightsBefore(layer, i, gap) ==
    IF i = 0 THEN 0
    ELSE drawnDims(layer[i].kind).h + gap + HeightsBefore(layer, i - 1, gap)

\* C9: in the computed layout the y of the node at index i of a layer's final
\* order is margin plus the sum over the nodes before it of (height + vertical
\* gap), also in a layer of mixed heights, and x is margin + assignLayer(kind)
\* times the layer spacing.
C9_CumulativeY ==
    (Returned /\ (tool = "renderer" => pc = "overlay")) =>
        LET margin == IF tool = "renderer" THEN theme.layout.margin ELSE MARGIN
            gap == IF tool = "renderer" THEN theme.layout.node_spacing_y ELSE NODE_Y_GAP
            spacing == IF tool = "renderer" THEN theme.layout.layer_spacing_x
                       ELSE LAYER_X_GAP
        IN \A k \in 1..Len(bestLayers) : \A i \in 1..Len(bestLayers[k]) :
              LET n == bestLayers[k][i]
              IN /\ positions[n.id].y = margin + HeightsBefore(bestLayers[k], i - 1, gap)
                 /\ positions[n.id].x = margin + assignLayer(n.kind) * spacing

\* The sequence p holds every item of the sequence q exactly once.
IsPermutation(p, q) ==
    /\ Len(p) = Len(q)
    /\ \A i \in 1..Len(q) : Cardinality({j \in 1..Len(p) : p[j] = q[i]}) = 1

\* C10: for a node list with unique identifiers the position map returned has
\* exactly one entry per input node and no other entry, and the order of each
\* layer, in every round and at the end, is a permutation of the nodes
\* assigned to that layer.
C10_OneEntryPerNode ==
    /\ Returned => DOMAIN positions = NodeIds(nodes)
    /\ (pc = "sweep" \/ Returned) =>
          /\ Len(layers) = Len(layerIndices(nodes))
          /\ Len(bestLayers) = Len(layerIndices(nodes))
          /\ \A k \in 1..Len(layerIndices(nodes)) :
                /\ IsPermutation(layers[k], layerMap(nodes, layerIndices(nodes)[k]))
                /\ IsPermutation(bestLayers[k], layerMap(nodes, layerIndices(nodes)[k]))

\* Eight nodes in three layers, a middle layer of four whose order the sweeps
\* changed, and a returned map of eight entries.
C10_Witness ==
    /\ Returned /\ Len(nodes) = 8
    /\ Cardinality(DOMAIN positions) = 8
    /\ Len(bestLayers) = 3 /\ Len(bestLayers[2]) = 4
    /\ bestLayers[2] # layerMap(nodes, 1)

\* Every order of the node list ns.
NodeOrders(ns) ==
    {[i \in 1..Len(ns) |-> ns[p[i]]] :
        p \in {q \in [1..Len(ns) -> 1..Len(ns)] :
                  \A i, j \in 1..Len(ns) : q[i] = q[j] => i = j}}
\* Every assignment of kinds to the nodes of ns.
Rekinded(ns) == {[i \in 1..Len(ns) |-> N(ns[i].id, ks[i])] : ks \in [1..Len(ns) -> Kinds]}

\* C11: layoutKey depends on the node identifiers alone: every permutation of
\* the node list and every change of kinds gives the key of the list itself
\* (edges and flows are no argument of layoutKey), so the load started for the
\* current graph reads the store under the key any such edit would write to.
C11_KeyOfIdsOnly ==
    tool = "authoring" =>
        /\ \A p \in NodeOrders(sdl.nodes) : \A q \in Rekinded(p) :
              layoutKey(q) = layoutKey(sdl.nodes)
        /\ \A g \in gets :
              g.id = generations =>
                  \A p \in NodeOrders(sdl.nodes) : g.key = layoutKey(p)
        /\ layoutKey(PairBA.nodes) = layoutKey(PairAB.nodes)

\* The graph was set twice, now with b listed before a; the load of the second
\* graph found the record a drop had written and applied its coordinates.
C11_Witness ==
    /\ tool = "authoring" /\ sdl = PairBA /\ generations = 2
    /\ gets = {} /\ sets = {} /\ layoutSaved /\ Returned
    /\ layoutKey(PairAB.nodes) \in DOMAIN storage
    /\ nodePositions # positions
    /\ nodePositions = mergeSaved(positions, JSONparse(storage[layoutKey(PairAB.nodes)]))

\* Only the entry of node n differs between the maps before and after, and
\* there only x and y.
OnlyMoved(before, after, n) ==
    /\ DOMAIN after = DOMAIN before \cup {n}
    /\ \A id \in DOMAIN before \ {n} : after[id] = before[id]
    /\ (n \in DOMAIN before /\ "layer" \in DOMAIN before[n]) =>
          ("layer" \in DOMAIN after[n] /\ after[n].layer = before[n].layer)

\* A pointer handler runs no layout pass and changes at most the x and y of
\* the node the gesture owns.
C12_Step ==
    pointerEvents' # pointerEvents =>
        /\ pc' = pc /\ round' = round /\ layers' = layers /\ bestLayers' = bestLayers
        /\ totals' = totals /\ orders' = orders /\ positions' = positions
        /\ nodePositions' # nodePositions =>
              /\ dragRef # <<>> /\ dragRef' = dragRef
              /\ OnlyMoved(nodePositions, nodePositions', dragRef[1].nodeId)
              /\ \E pt \in PointerPoints :
                    /\ nodePositions'[dragRef[1].nodeId].x =
                          dragRef[1].origX + (pt.x - dragRef[1].startSx)
                    /\ nodePositions'[dragRef[1].nodeId].y =
                          dragRef[1].origY + (pt.y - dragRef[1].startSy)

\* C12: the handlers of a drag gesture (pointer down on n, moves, pointer up)
\* run no crossing minimisation and no layout pass; a move changes only the x
\* and y of n in nodePositions and leaves the layer of n and the x, y, layer
\* of every other node as they were; the gesture owns at most one node
\* identifier at any time.
C12_DragMovesOneNode == [](Len(dragRef) <= 1) /\ [][C12_Step]_vars

\* b of a -> b -> c is owned and was moved; a and c stand where the layout
\* put them and b is still in layer 1.
C12_Witness ==
    /\ tool = "authoring" /\ sdl = TripleABC /\ Returned
    /\ dragRef # <<>> /\ dragRef[1].nodeId = "b"
    /\ nodePositions # Null
    /\ nodePositions["b"].x # positions["b"].x /\ nodePositions["b"].y # positions["b"].y
    /\ nodePositions["b"].layer = 1
    /\ nodePositions["a"] = positions["a"] /\ nodePositions["c"] = positions["c"]

\* The step is onSVGUp ending an active drag.
DragCompletes == pointerEvents' # pointerEvents /\ dragRef # <<>> /\ dragRef' = <<>>

\* The record holds x and y, and nothing else, for every identifier of np.
OnlyXY(record, np) ==
    /\ DOMAIN record = DOMAIN np
    /\ \A id \in DOMAIN np :
          /\ DOMAIN record[id] = {"x", "y"}
          /\ record[id].x = np[id].x /\ record[id].y = np[id].y

\* The step starts exactly one write, of the x and y of nodePositions under
\* the key of the current nodes.
OneWrite ==
    \E w \in sets' :
        /\ w \notin sets /\ sets' = sets \cup {w}
        /\ w.key = layoutKey(sdl.nodes)
        /\ OnlyXY(JSONparse(w.value), nodePositions)

\* A write that ends puts its value under its key, or fails and puts nothing.
WriteLands ==
    \A w \in sets \ sets' :
        storage' # storage => (DOMAIN storage' = DOMAIN storage \cup {w.key}
                               /\ storage'[w.key] = w.value)

C13_Step ==
    /\ DragCompletes => OneWrite
    /\ ~DragCompletes => sets' \subseteq sets
    /\ WriteLands

LoadApplied(g) == g \in gets /\ g.read /\ g \notin gets'

SameIdGraphs(g) ==
    {G(p, es) : p \in NodeOrders(g.nodes),
                es \in {g.edges, <<>>,
                        [i \in 1..Len(g.edges) |->
                            E(g.edges[i].id, g.edges[i].target, g.edges[i].source)]}}

\* Saving np and loading it for the graph g: key, stored text, parse, merge.
RoundTrip(np, g) ==
    LET text == JSONstringify(toSave(np))
        base == layout(g.nodes, g.edges)
        merged == mergeSaved(base, JSONparse(text))
    IN /\ layoutKey(g.nodes) = layoutKey(sdl.nodes)
       /\ DOMAIN merged = NodeIds(g.nodes)
       /\ \A i \in 1..Len(g.nodes) :
             LET id == g.nodes[i].id
             IN /\ merged[id].layer = base[id].layer
                /\ merged[id].layer = assignLayer(g.nodes[i].kind)
                /\ id \in DOMAIN np =>
                      (merged[id].x = np[id].x /\ merged[id].y = np[id].y)

C16_Step ==
    /\ (DragCompletes /\ Len(sdl.nodes) > 0) =>
          /\ \E w \in sets' \ sets : w.value = JSONstringify(toSave(nodePositions))
          /\ \A g \in SameIdGraphs(sdl) :
                ~buildAdjThrows(g.nodes, g.edges) => RoundTrip(nodePositions, g)
    /\ \A g \in gets :
          (LoadApplied(g) /\ g.found) =>
              \A id \in DOMAIN g.base :
                  /\ nodePositions'[id].layer = g.base[id].layer
                  /\ id \in DOMAIN JSONparse(g.value) =>
                        /\ nodePositions'[id].x = JSONparse(g.value)[id].x
                        /\ nodePositions'[id].y = JSONparse(g.value)[id].y

\* C16: save/load round trip: the record a completed drag writes, loaded again
\* for a graph of the same node identifiers (in any order, with any edges),
\* gives every node the x and y it had at the drop and the layer the layout
\* computes for it; and a load that found a record applies exactly that.
C16_SaveLoadRoundTrip == [][C16_Step]_vars

\* a -> b was dropped with b moved, the write landed, the same graph was set
\* again and its load put b back where it was dropped, in layer 1.
C16_Witness ==
    /\ tool = "authoring" /\ sdl = PairAB /\ generations = 2
    /\ gets = {} /\ sets = {} /\ dragRef = <<>> /\ layoutSaved /\ Returned
    /\ pointerEvents = 3
    /\ layoutKey(sdl.nodes) \in DOMAIN storage
    /\ nodePositions["b"].x # positions["b"].x
    /\ nodePositions["b"].x = JSONparse(storage[layoutKey(sdl.nodes)])["b"].x
    /\ nodePositions["b"].y = JSONparse(storage[layoutKey(sdl.nodes)])["b"].y
    /\ nodePositions["b"].layer = 1 /\ nodePositions["a"] = positions["a"]

\* C17: in the static renderer a saved layout record made for another node
\* set than the current one (a node added or removed since it was saved) is
\* not applied at all: the positions rendered are the freshly computed layout
\* for every node, never saved positions for some nodes and computed ones for
\* the others.
C17_ForeignRecordNotApplied ==
    (tool = "renderer" /\ pc \in {"route", "done"} /\ layoutFile.present
        /\ DOMAIN layoutFile.saved # NodeIds(nodes)) =>
        positions = assignPositions(bestLayers, layerIndices(nodes), theme)

\* Kinds no row of LAYER_ORDER lists: "custom", a missing kind (undefined),
\* the empty string, a kind in other letter case, a name of Object.prototype.
UnknownKinds == {"custom", "undefined", "", "Actor", "constructor"}
ListedKinds == UNION {LAYER_ORDER[i] : i \in 1..Len(LAYER_ORDER)}

\* C18: assignLayer is total: a kind listed in LAYER_ORDER maps to the index
\* of the row listing it; every other kind ("custom", undefined, any unknown
\* string) maps to layer 2 and to the default rectangle dimensions, without
\* an error: a node of such a kind is laid out in layer 2 and drawn with the
\* default width and height.
C18_AssignLayerTotal ==
    /\ \A kind \in ListedKinds :
          /\ assignLayer(kind) \in 0..(Len(LAYER_ORDER) - 1)
          /\ kind \in LAYER_ORDER[assignLayer(kind) + 1]
    /\ \A kind \in UnknownKinds \cup ({nodes[i].kind : i \in 1..Len(nodes)} \ ListedKinds) :
          /\ assignLayer(kind) = 2
          /\ nodeDims(kind) = [w |-> 150, h |-> 62]
          /\ \A th \in Themes :
                getNodeDims(kind, th) = [w |-> th.nodes.width, h |-> th.nodes.height]
    /\ Returned =>
          \A i \in 1..Len(nodes) :
              nodes[i].kind \notin ListedKinds =>
                  /\ positions[nodes[i].id].layer = 2
                  /\ drawnDims(nodes[i].kind) =
                        (IF tool = "renderer"
                         THEN [w |-> theme.nodes.width, h |-> theme.nodes.height]
                         ELSE [w |-> NODE_W, h |-> NODE_H])

\* The renderer has drawn a gateway in layer 1 and a node of kind "custom"
\* in layer 2, the latter 150 wide and 62 high.
C18_Witness ==
    /\ tool = "renderer" /\ pc = "done" /\ theme = AuthoringTheme
    /\ Len(nodes) = 2 /\ nodes[1].kind = "custom" /\ nodes[2].kind = "gateway"
    /\ positions[nodes[1].id].layer = 2 /\ positions[nodes[2].id].layer = 1
    /\ getNodeDims(nodes[1].kind, theme) = [w |-> 150, h |-> 62]
    /\ getNodeDims(nodes[2].kind, theme) = [w |-> 76, h |-> 76]

\* The renderer on an empty node list: no error, nothing to sweep, an empty
\* position map, an empty port index, a canvas of twice the margin.
C19_State ==
    (tool = "renderer" /\ nodes = <<>>) =>
        /\ pc # "threw"
        /\ layers = <<>> /\ bestLayers = <<>>
        /\ \A r \in 1..Len(orders) : orders[r] = <<>> /\ totals[r] = 0
        /\ positions = <<>>
        /\ pc = "done" =>
              /\ portY = <<>>
              /\ \A i \in 1..Len(paths) : ~paths[i].drawn
              /\ computeCanvasSize(positions, nodes, theme) =
                    [width |-> 2 * theme.layout.margin, height |-> 2 * theme.layout.margin]

\* The App on a graph change to an empty node list.
C19_Step ==
    (generations' # generations /\ Len(sdl'.nodes) = 0) =>
        /\ nodePositions' = Null /\ layoutSaved' = FALSE
        /\ gets' = gets /\ pc' = "idle"

\* C19: an empty graph is handled without error: computeLayout on an empty
\* node list, with any edge list, sweeps nothing and returns an empty position
\* map, the port index is empty and computeCanvasSize returns width = height =
\* 2 * margin; in the authoring tool an empty node list sets nodePositions to
\* null and starts no store read.
C19_EmptyGraph == [](C19_State) /\ [][C19_Step]_vars

\* The x, y and layer of a position.
XYL(p) == [x |-> p.x, y |-> p.y, layer |-> p.layer]

\* C20: the two implementations agree: for the same node list and edge list
\* and a theme with the authoring tool's constants (layer spacing 210, gap 90,
\* margin 52, the same shape sizes) computeLayout and layout return the same
\* x, y and layer for every node, and buildPortIndex and buildPortsLive give
\* the same port y-value for every edge endpoint.
C20_EnginesAgree ==
    /\ (tool = "renderer" /\ theme = AuthoringTheme /\ pc = "overlay") =>
          /\ DOMAIN layout(nodes, edges) = DOMAIN positions
          /\ \A id \in DOMAIN positions : layout(nodes, edges)[id] = XYL(positions[id])
    /\ (tool = "renderer" /\ theme = AuthoringTheme /\ pc = "done") =>
          buildPortsLive(edges, positions, nodes) = portY
    /\ (tool = "authoring" /\ Returned) =>
          /\ DOMAIN computeLayout(nodes, edges, AuthoringTheme) = DOMAIN positions
          /\ \A id \in DOMAIN positions :
                XYL(computeLayout(nodes, edges, AuthoringTheme)[id]) = positions[id]
    /\ (tool = "authoring" /\ nodePositions # Null) =>
          buildPortIndex(sdl.edges, nodePositions, sdl.nodes, AuthoringTheme) = portY

\* The renderer, under the authoring constants, has drawn the three-layer
\* graph whose order the sweeps changed, with ports spread over its nodes.
C20_Witness ==
    /\ tool = "renderer" /\ pc = "done" /\ theme = AuthoringTheme
    /\ nodes = Oscillating.nodes /\ edges = Oscillating.edges
    /\ ~layoutFile.present
    /\ bestLayers # initialLayers(nodes)
    /\ Cardinality(DOMAIN portY) = 2 * Len(edges)
    /\ \A id \in DOMAIN positions : layout(nodes, edges)[id] = XYL(positions[id])

\* ------------------------------------------------------------------------
\* C21..C30
\* ------------------------------------------------------------------------

Blank(s) == ~s.defined \/ trimEnd(trimStart(s.units)) = <<>>
Mentions(text, word) == \E i \in 1..Len(text) : text[i] = word

\* C21: once resolveDir has returned, a non-blank sdl_dir argument, trimmed,
\* is the directory that is resolved whatever SDL_DIR holds; without such an
\* argument the trimmed SDL_DIR is; and when both are unset or blank the
\* result is an error value whose text mentions SDL_DIR and holds no dir.
C21_ResolveDirPrecedence ==
    (tool = "mcp" /\ pc = "returned") =>
        IF ~Blank(mcp.arg)
        THEN mcp.result = [dir |-> resolve(trimEnd(trimStart(mcp.arg.units)))]
        ELSE IF ~Blank(mcp.env)
        THEN mcp.result = [dir |-> resolve(trimEnd(trimStart(mcp.env.units)))]
        ELSE /\ DOMAIN mcp.result = {"error"}
             /\ Mentions(mcp.result.error, "SDL_DIR")

\* A padded argument has won over another SDL_DIR.
C21_Witness ==
    /\ tool = "mcp" /\ pc = "returned"
    /\ mcp.arg = Str(<<32, 47, 115, 100, 108, 32>>)
    /\ mcp.env = Str(<<47, 111, 47, 46, 46, 47, 120>>)
    /\ mcp.result = [dir |-> <<47, 115, 100, 108>>]

\* The position of the node id in the layer, counted from 0.
IndexIn(layer, id) == IndexMap(layer)[id]
\* The layers as they stand when the forward pass sorts the last layer.
ForwardSorted ==
    IF tool = "renderer" THEN forwardPass(layers, buildAdjacency(nodes, edges), 2)
    ELSE layoutForward(layers, buildAdj(nodes, edges), 2)

\* C22: in a sweep a node without a neighbour in the reference layer is sorted
\* with its own previous index as key.  The last layer is sorted once in a
\* round, by the forward pass against the layer before it: a node n without a
\* neighbour there, at previous index p, stands after every node whose
\* barycenter is below p and before every node whose barycenter is above p,
\* and keeps its side of a node whose barycenter is p.
C22_Step ==
    (pc = "sweep" /\ round < ROUNDS /\ round' = round + 1 /\ Len(layers) >= 2) =>
        LET K == Len(layers)
            adj == IF tool = "renderer" THEN buildAdjacency(nodes, edges)
                   ELSE buildAdj(nodes, edges)
            fp == IndexMap(ForwardSorted[K - 1])
            nb(x) == {id \in adj[x.id] : id \in DOMAIN fp}
            before(x, y) == IndexIn(layers'[K], x.id) < IndexIn(layers'[K], y.id)
        IN \A i, j \in 1..Len(layers[K]) :
              LET n == layers[K][i]
                  m == layers[K][j]
                  p == i - 1
                  sum == SumOver(fp, nb(m))
                  cnt == Cardinality(nb(m))
              IN (i # j /\ nb(n) = {} /\ nb(m) # {}) =>
                    /\ sum < p * cnt => before(m, n)
                    /\ sum > p * cnt => before(n, m)
                    /\ sum = p * cnt => (before(n, m) <=> i < j)
C22_PreviousIndexKey == [][C22_Step]_vars

\* The edge list with source and target exchanged in the edges at the indices S.
Swapped(es, S) ==
    [i \in 1..Len(es) |-> IF i \in S THEN E(es[i].id, es[i].target, es[i].source) ELSE es[i]]

SpreadOfGroup(group, nid) ==
    LET top == drawnPositions[nid].y
        h == drawnDims(KindOf(drawnNodes, nid)).h
        n == Len(group)
    IN \A i \in 1..n :
          /\ <<group[i], nid>> \in DOMAIN portY
          /\ LET v == portY[<<group[i], nid>>]
             IN IF n = 1 THEN 2 * v.num = v.den * (2 * top + h)
                ELSE 10 * (n - 1) * v.num
                       = v.den * (10 * (n - 1) * top + 2 * (n - 1) * h + 6 * (i - 1) * h)

\* C24: in the drawn diagram every group of routed edges on one side of a
\* node, taken in edge-list order, has its ports spread: a single edge at the
\* middle of the node's height, N >= 2 edges in equal steps from 20% to 80%.
C24_PortSpreading ==
    Routing =>
        /\ \A nid \in DOMAIN drawnSides.right : SpreadOfGroup(drawnSides.right[nid], nid)
        /\ \A nid \in DOMAIN drawnSides.left : SpreadOfGroup(drawnSides.left[nid], nid)

\* The edges at the indices of es that run between the layers A and B, and
\* the index of an edge's end in a layer.
Between(A, B, es) ==
    {i \in 1..Len(es) :
        \/ es[i].source \in DOMAIN IndexMap(A) /\ es[i].target \in DOMAIN IndexMap(B)
        \/ es[i].source \in DOMAIN IndexMap(B) /\ es[i].target \in DOMAIN IndexMap(A)}
EndIn(L, e) == IF e.source \in DOMAIN IndexMap(L) THEN IndexIn(L, e.source) ELSE IndexIn(L, e.target)
\* The unordered pairs of such edges whose ends are strictly inverted.
Inversions(A, B, es) ==
    Cardinality({p \in Between(A, B, es) \X Between(A, B, es) :
        /\ p[1] < p[2]
        /\ \/ EndIn(A, es[p[1]]) < EndIn(A, es[p[2]]) /\ EndIn(B, es[p[1]]) > EndIn(B, es[p[2]])
           \/ EndIn(A, es[p[1]]) > EndIn(A, es[p[2]]) /\ EndIn(B, es[p[1]]) < EndIn(B, es[p[2]])})
RECURSIVE SumInversions(_, _, _)
SumInversions(lys, es, k) ==
    IF k >= Len(lys) THEN 0 ELSE Inversions(lys[k], lys[k + 1], es) + SumInversions(lys, es, k + 1)

C26_Renderer ==
    (tool = "renderer" /\ pc \in {"route", "done"}) =>
        /\ overlaySaved(positions, nodes, layoutFile.saved) = positions
        /\ layoutFile.saved = <<>> => positions = computeLayout(nodes, edges, theme)

\* The load continuation: merging what it set with the same record again
\* gives what it set; with no record it set the computed base.
C26_Step ==
    \A g \in gets :
        LoadApplied(g) =>
            IF g.found
            THEN mergeSaved(nodePositions', JSONparse(g.value)) = nodePositions'
            ELSE nodePositions' = g.base

C27_NoVerticalOverlap ==
    (Returned /\ (tool = "renderer" => (pc = "overlay" /\ theme = AuthoringTheme))) =>
        \A k \in 1..Len(bestLayers) : \A i \in 2..Len(bestLayers[k]) :
            positions[bestLayers[k][i].id].y
                >= positions[bestLayers[k][i - 1].id].y + drawnDims(bestLayers[k][i - 1].kind).h

\* The order before any sweep: each layer in node-list order.
InitialOrder == IF tool = "renderer" THEN initialLayers(nodes) ELSE layoutLayers(nodes)

\* C28: the order computeLayout / layout returns never has a larger total
\* crossing count, summed over consecutive layers, than the initial order in
\* which each layer lists its nodes as the node list does.
C28_NeverWorseThanInitial ==
    (Returned /\ (tool = "renderer" => pc = "overlay")) =>
        SumInversions(bestLayers, edges, 1) <= SumInversions(InitialOrder, edges, 1)

\* The layer of the node id, and whether a non-empty layer lies strictly
\* between the layers of u and v.
LayerOf(id) == assignLayer(KindOf(nodes, id))
LayerBetween(u, v) ==
    \E i \in 1..Len(nodes) :
        \/ LayerOf(u) < assignLayer(nodes[i].kind) /\ assignLayer(nodes[i].kind) < LayerOf(v)
        \/ LayerOf(v) < assignLayer(nodes[i].kind) /\ assignLayer(nodes[i].kind) < LayerOf(u)
\* An edge between the nodes u and v that joins no two adjacent layers.
Inert(u, v) ==
    /\ u \in NodeIds(nodes) /\ v \in NodeIds(nodes)
    /\ LayerOf(u) = LayerOf(v) \/ LayerBetween(u, v)
InertEdges == {i \in 1..Len(edges) : Inert(edges[i].source, edges[i].target)}
Without(es, S) == FilterSeq(es, (1..Len(es)) \ S)
\* What the engine of the running tool returns for the edge list es.
Relayout(es) ==
    IF tool = "renderer" THEN computeLayout(nodes, es, theme) ELSE layout(nodes, es)

RecordFits(key, text) ==
    \A g \in AppGraphs :
        key = layoutKey(g.nodes) => DOMAIN JSONparse(text) = NodeIds(g.nodes)

\* C30: in every interleaving of graph changes, loads, drags and saves, each
\* record written to the store under a key K (handed to window.storage.set,
\* or landed in the store) has entries for exactly the node identifiers K was
\* derived from.
C30_RecordMatchesKey ==
    tool = "authoring" =>
        /\ \A w \in sets : RecordFits(w.key, w.value)
        /\ \A K \in DOMAIN storage : RecordFits(K, storage[K])

====
